---- MODULE Spec2Model ----
(***************************************************************************)
(* Model of the jds6600 serial control library (src/jds6600.py).           *)
(*                                                                         *)
(* Text is modelled as a sequence of one-character strings, so that the    *)
(* codec (formatting, splitting, stripping, integer parsing) is computed   *)
(* as the code computes it.  The serial line is a queue of reply lines the *)
(* device owes the client; the content of a line is chosen when it is      *)
(* read.  One API call runs as a list of instructions (todo), one action   *)
(* per serial I/O step of the code.                                        *)
(***************************************************************************)
EXTENDS Integers, Sequences, FiniteSets, TLC

\* ------------------------------------------------------------------ bounds

\* number of API calls made on the connection in one behaviour
MaxCalls == 2

\* ------------------------------------------------------- register numbers

\* ACTION (a reserved word of TLA+)
ACTION_REG == 32
MODE == 33
COUNTER_RESETCOUNTER == 39
MEASURE_COUP == 36
MEASURE_MODE == 38
SWEEP_DIRECTION == 43
SWEEP_MODE == 44
BURST_MODE == 50
PULSE_PULSEWIDTH == 45
PULSE_PERIOD == 46
BURST_NUMBER == 49
PROFILE_SAVE == 70
PROFILE_LOAD == 71
PROFILE_CLEAR == 72
MEASURE_DATA_FREQ_LOWRES == 81
DEVICETYPE == 0
SERIALNUMBER == 1
WAVEFORM1 == 21
FREQUENCY1 == 23
AMPLITUDE1 == 25
OFFSET1 == 27
DUTYCYCLE1 == 29
PHASE == 31
SYSTEM_SOUND == 51
SYSTEM_BRIGHTNESS == 52
SYSTEM_LANGUAGE == 53
SYSTEM_SYNC == 54
SYSTEM_ARBMAXNUM == 55

\* ------------------------------------------------------------------- text

DigitChars == <<"0", "1", "2", "3", "4", "5", "6", "7", "8", "9">>

\* a byte that is no valid UTF-8: str(bytes,'utf-8') raises UnicodeDecodeError
BadByte == "<ff>"

\* the characters str.rstrip() / str.strip() remove
Whitespace == {" ", "\t", "\n", "\r"}

IsDigit(ch) == \E d \in 1..10 : DigitChars[d] = ch

DigitVal(ch) == (CHOOSE d \in 1..10 : DigitChars[d] = ch) - 1

RECURSIVE NatStr(_)
NatStr(n) == IF n < 10 THEN <<DigitChars[n + 1]>>
             ELSE NatStr(n \div 10) \o <<DigitChars[(n % 10) + 1]>>

\* Python str(int)
str(n) == IF n < 0 THEN <<"-">> \o NatStr(-n) ELSE NatStr(n)

\* Python str.rstrip()
RECURSIVE rstrip(_)
rstrip(s) == IF s # <<>> /\ s[Len(s)] \in Whitespace
             THEN rstrip(SubSeq(s, 1, Len(s) - 1))
             ELSE s

RECURSIVE lstrip(_)
lstrip(s) == IF s # <<>> /\ s[1] \in Whitespace THEN lstrip(Tail(s)) ELSE s

\* str(bytes,'utf-8'): fails on a byte sequence that is no UTF-8
Decodable(bytes) == \A i \in 1..Len(bytes) : bytes[i] # BadByte

\* Python s.split(ch): the fields between the occurrences of ch, here of
\* s[lo..hi]; the two halves are split and the fields at the seam joined
RECURSIVE SplitRange(_, _, _, _)
SplitRange(s, ch, lo, hi) ==
    IF lo > hi THEN << <<>> >>
    ELSE IF lo = hi THEN (IF s[lo] = ch THEN << <<>>, <<>> >> ELSE << <<s[lo]>> >>)
    ELSE LET mid == (lo + hi) \div 2
             L == SplitRange(s, ch, lo, mid)
             R == SplitRange(s, ch, mid + 1, hi)
         IN  SubSeq(L, 1, Len(L) - 1) \o << L[Len(L)] \o R[1] >> \o SubSeq(R, 2, Len(R))

split(s, ch) == SplitRange(s, ch, 1, Len(s))

\* the text int() accepts: optional sign and at least one digit, blanks around
IntBody(s) == IF s # <<>> /\ s[1] \in {"+", "-"} THEN Tail(s) ELSE s

IsIntLit(s) ==
    LET t == lstrip(rstrip(s))
    IN  /\ IntBody(t) # <<>>
        /\ \A i \in 1..Len(IntBody(t)) : IsDigit(IntBody(t)[i])

RECURSIVE DigitsVal(_)
DigitsVal(s) == IF s = <<>> THEN 0
                ELSE 10 * DigitsVal(SubSeq(s, 1, Len(s) - 1)) + DigitVal(s[Len(s)])

\* Python int(str), for a text IsIntLit accepts
int(s) ==
    LET t == lstrip(rstrip(s))
    IN  IF t[1] = "-" THEN - DigitsVal(IntBody(t)) ELSE DigitsVal(IntBody(t))

LowerChars == <<"a", "b", "c", "d", "e", "f", "g", "h", "i", "j", "k", "l", "m",
                "n", "o", "p", "q", "r", "s", "t", "u", "v", "w", "x", "y", "z">>

UpperChars == <<"A", "B", "C", "D", "E", "F", "G", "H", "I", "J", "K", "L", "M",
                "N", "O", "P", "Q", "R", "S", "T", "U", "V", "W", "X", "Y", "Z">>

UpperOf(ch) == IF \E i \in 1..26 : LowerChars[i] = ch
               THEN UpperChars[CHOOSE i \in 1..26 : LowerChars[i] = ch]
               ELSE ch

\* Python str.upper()
upper(s) == [i \in 1..Len(s) |-> UpperOf(s[i])]

\* ----------------------------------------------------------------- tables

WAVE_CH1 == <<"W", "A", "V", "E", "_", "C", "H", "1">>
WAVE_CH2 == <<"W", "A", "V", "E", "_", "C", "H", "2">>
SYSTEM == <<"S", "Y", "S", "T", "E", "M">>
MEASURE == <<"M", "E", "A", "S", "U", "R", "E">>
COUNTER == <<"C", "O", "U", "N", "T", "E", "R">>
SWEEP_CH1 == <<"S", "W", "E", "E", "P", "_", "C", "H", "1">>
SWEEP_CH2 == <<"S", "W", "E", "E", "P", "_", "C", "H", "2">>
PULSE == <<"P", "U", "L", "S", "E">>
BURST == <<"B", "U", "R", "S", "T">>

\* __modes: the table getmode indexes with the register value >> 3
modes == << [id |-> 0, txt |-> WAVE_CH1], [id |-> 0, txt |-> WAVE_CH1],
            [id |-> 1, txt |-> WAVE_CH2], [id |-> 1, txt |-> WAVE_CH2],
            [id |-> 2, txt |-> SYSTEM], [id |-> 2, txt |-> SYSTEM],
            [id |-> -1, txt |-> <<>>], [id |-> -1, txt |-> <<>>],
            [id |-> 4, txt |-> MEASURE], [id |-> 5, txt |-> COUNTER],
            [id |-> 6, txt |-> SWEEP_CH1], [id |-> 7, txt |-> SWEEP_CH2],
            [id |-> 8, txt |-> PULSE], [id |-> 9, txt |-> BURST] >>

\* __action: action name -> the pattern written to the action register
action(name) ==
    CASE name = "STOP" -> <<"0", ",", "0", ",", "0", ",", "0">>
      [] name = "COUNT" -> <<"1", ",", "0", ",", "0", ",", "0">>
      [] name = "SWEEP" -> <<"0", ",", "1", ",", "0", ",", "0">>
      [] name = "PULSE" -> <<"1", ",", "0", ",", "1", ",", "1">>
      [] name = "BURST" -> <<"1", ",", "0", ",", "0", ",", "1">>

ActionNames == {"STOP", "COUNT", "SWEEP", "PULSE", "BURST"}

\* ------------------------------------------------------------------ codec

\* a variant of reg2txt that does not pad a register below 10
reg2txt_nopad(reg) == str(reg)

\* __reg2txt
reg2txt(reg) == IF reg < 10 THEN <<"0">> \o str(reg) ELSE str(reg)

\* the op-char a reply to a read must echo
ReadChar(a) == IF a = 0 THEN "r" ELSE "b"

\* the command line __sendreadcmd writes (n already forced to 1 for a waveform)
ReadCmd(reg, n, a) ==
    <<":", ReadChar(a)>> \o reg2txt(reg) \o <<"=">>
        \o str((IF a = 0 THEN n ELSE 1) - 1) \o <<".", "\n">>

WriteChar(a) == IF a = 0 THEN "w" ELSE "a"

\* the command line __sendwritecmd writes
WriteCmd(reg, val, a) ==
    <<":", WriteChar(a)>> \o reg2txt(reg) \o <<"=">> \o val \o <<".", "\n">>

\* a variant of EchoMatches that compares the register digits only, not the op-char
EchoMatches_regonly(one, regtxt, a) == SubSeq(one, 3, Len(one)) = regtxt

\* the register echo the code compares the left side of a reply with
EchoMatches(one, regtxt, a) == one = <<":", ReadChar(a)>> \o regtxt

\* a variant of parsedata that takes a line without '=' for one field
parsedata_noeq(regtxt, data, a) ==
    LET parts == split(data, "=")
    IN  IF Len(parts) # 2
        THEN [ok |-> TRUE, fields |-> <<data>>]
        ELSE LET two_b == split(parts[2], ".")
             IN  IF a = 0 /\ Len(two_b) # 2
                 THEN [ok |-> FALSE, fields |-> <<>>]
                 ELSE IF ~ EchoMatches(parts[1], regtxt, a)
                 THEN [ok |-> FALSE, fields |-> <<>>]
                 ELSE [ok |-> TRUE, fields |-> split(two_b[1], ",")]

\* __parsedata: the comma-separated fields of a reply line, or FormatError
parsedata(regtxt, data, a) ==
    LET parts == split(data, "=")
    IN  IF Len(parts) # 2
        THEN [ok |-> FALSE, fields |-> <<>>]
        ELSE LET two_b == split(parts[2], ".")
             IN  IF a = 0 /\ Len(two_b) # 2
                 THEN [ok |-> FALSE, fields |-> <<>>]
                 ELSE IF ~ EchoMatches(parts[1], regtxt, a)
                 THEN [ok |-> FALSE, fields |-> <<>>]
                 ELSE [ok |-> TRUE, fields |-> split(two_b[1], ",")]

\* a variant of c_expect that never moves on to the next register
c_expect_stuck(reg, l) == reg2txt(reg)

\* c_expect of __getrespondsandparse when it reads line l (0-based) of a read at reg
c_expect(reg, l) == reg2txt(reg + l)

\* the number of samples of an arbitrary waveform
ARB_LEN == 2048

\* a variant of BadFields that tolerates no empty field at all
BadFields_noempty(fields, a) ==
    {k \in 0..(Len(fields) - 1) : ~ IsIntLit(fields[k + 1])}

\* the indices (0-based, as retcount) of the fields that make the loop raise
BadFields(fields, a) ==
    {k \in 0..(Len(fields) - 1) :
        IF fields[k + 1] = <<>> THEN ~ (a = 1 /\ k = ARB_LEN)
        ELSE ~ IsIntLit(fields[k + 1])}

NonEmpty(field) == field # <<>>

\* retlist: the fields that are not empty, converted
IntFields(fields) ==
    LET kept == SelectSeq(fields, NonEmpty)
    IN  [k \in 1..Len(kept) |-> int(kept[k])]

Min(S) == CHOOSE x \in S : \A y \in S : x <= y

NoValue == [scalar |-> TRUE, v |-> <<>>]

\* one iteration of the loop of __getrespondsandparse on the bytes readline()
\* returned: the value appended to ret, or the exception raised
LineValue(regtxt, bytes, a) ==
    IF ~ Decodable(bytes)
    THEN [exc |-> "UnicodeDecodeError", val |-> NoValue]
    ELSE LET p == parsedata(regtxt, rstrip(bytes), a)
         IN  IF ~ p.ok THEN [exc |-> "FormatError", val |-> NoValue]
             ELSE IF Len(p.fields) = 1
             THEN IF IsIntLit(p.fields[1])
                  THEN [exc |-> "", val |-> [scalar |-> TRUE, v |-> <<int(p.fields[1])>>]]
                  ELSE [exc |-> "ValueError", val |-> NoValue]
             ELSE IF BadFields(p.fields, a) # {}
             THEN IF p.fields[Min(BadFields(p.fields, a)) + 1] = <<>>
                  THEN [exc |-> "UnexpectedValueError", val |-> NoValue]
                  ELSE [exc |-> "ValueError", val |-> NoValue]
             ELSE [exc |-> "", val |-> [scalar |-> FALSE, v |-> IntFields(p.fields)]]

\* the comma-joined text arb_setwave builds from wave[lo..hi]
RECURSIVE JoinRange(_, _, _)
JoinRange(wave, lo, hi) ==
    IF lo = hi THEN str(wave[lo])
    ELSE LET mid == (lo + hi) \div 2
         IN  JoinRange(wave, lo, mid) \o <<",">> \o JoinRange(wave, mid + 1, hi)

\* the acknowledgement __sendwritecmd waits for
AckToken == <<":", "o", "k">>

\* Python seq[i]: a negative index counts from the end
PyIndexOk(seq, i) == - Len(seq) <= i /\ i < Len(seq)

PyIndex(seq, i) == IF i >= 0 THEN seq[i + 1] ELSE seq[Len(seq) + i + 1]

NoMode == [id |-> -1, txt |-> <<>>]

\* a variant of decodemode that returns whatever entry of the table it finds
decodemode_anyentry(val) ==
    IF ~ val.scalar THEN [exc |-> "TypeError", mode |-> NoMode]
    ELSE LET m == val.v[1] \div 8
         IN  IF ~ PyIndexOk(modes, m)
             THEN [exc |-> "UnexpectedValueError", mode |-> NoMode]
             ELSE [exc |-> "", mode |-> PyIndex(modes, m)]

\* getmode, after the register was read: the (id, name) pair or the exception
decodemode(val) ==
    IF ~ val.scalar THEN [exc |-> "TypeError", mode |-> NoMode]
    ELSE LET m == val.v[1] \div 8
         IN  IF ~ PyIndexOk(modes, m)
             THEN [exc |-> "UnexpectedValueError", mode |-> NoMode]
             ELSE IF PyIndex(modes, m).id >= 0
             THEN [exc |-> "", mode |-> PyIndex(modes, m)]
             ELSE [exc |-> "UnexpectedValueError", mode |-> NoMode]

\* __system_language
system_language == <<<<"E", "N", "G", "L", "I", "S", "H">>, <<"C", "H", "I", "N", "E", "S", "E">>>>

\* __wave: the predefined waveforms 0 to 16 of the registers 21 and 22
wavenames == << <<"S", "I", "N", "E">>,
          <<"S", "Q", "U", "A", "R", "E">>,
          <<"P", "U", "L", "S", "E">>,
          <<"T", "R", "I", "A", "N", "G", "L", "E">>,
          <<"P", "A", "R", "T", "I", "A", "L", "S", "I", "N", "E">>,
          <<"C", "M", "O", "S">>,
          <<"D", "C">>,
          <<"H", "A", "L", "F", "-", "W", "A", "V", "E">>,
          <<"F", "U", "L", "L", "-", "W", "A", "V", "E">>,
          <<"P", "O", "S", "-", "L", "A", "D", "D", "E", "R">>,
          <<"N", "E", "G", "-", "L", "A", "D", "D", "E", "R">>,
          <<"N", "O", "I", "S", "E">>,
          <<"E", "X", "P", "-", "R", "I", "Z", "E">>,
          <<"E", "X", "P", "-", "D", "E", "C", "A", "Y">>,
          <<"M", "U", "L", "T", "I", "-", "T", "O", "N", "E">>,
          <<"S", "I", "N", "C">>,
          <<"L", "O", "R", "E", "N", "Z">> >>

\* __awave: the names of the arbitrary waveforms 101 to 160, "ARBITRARY01" to
\* "ARBITRARY60"
awave == [a \in 1..60 |-> <<"A", "R", "B", "I", "T", "R", "A", "R", "Y">>
                             \o (IF a < 10 THEN <<"0">> ELSE <<>>) \o str(a)]

\* __measure_coupling, __measure_mode, __sweep_direction, __sweep_mode, __burst_mode
measure_coupling == <<<<"A", "C", "(", "E", "X", "T", ".", "I", "N", ")">>, <<"D", "C", "(", "E", "X", "T", ".", "I", "N", ")">>>>

measure_mode == <<<<"M", ".", "F", "R", "E", "Q">>, <<"M", ".", "P", "E", "R", "I", "O", "D">>>>

sweep_direction == <<<<"R", "I", "S", "E">>, <<"F", "A", "L", "L">>, <<"R", "I", "S", "E", "&", "F", "A", "L", "L">>>>

sweep_mode == <<<<"L", "I", "N", "E", "A", "R">>, <<"L", "O", "G", "A", "R", "I", "T", "H", "M">>>>

burst_mode == <<<<"M", "A", "N", "U", "A", "L", " ", "T", "R", "I", "G", ".">>,
               <<"C", "H", "2", " ", "T", "R", "I", "G", ".">>,
               <<"E", "X", "T", ".", "T", "R", "I", "G", "(", "A", "C", ")">>,
               <<"E", "X", "T", ".", "T", "R", "I", "G", "(", "D", "C", ")">>>>
\* tuple.index(name): the 0-based index of the first entry equal to name, or
\* -1 where Python raises ValueError
TableIndex(table, name) ==
    IF \E i \in 1..Len(table) : table[i] = name
    THEN Min({i \in 1..Len(table) : table[i] = name}) - 1
    ELSE -1

\* ----------------------------------------------------- instructions of a call

Instr(op) == [op |-> op, reg |-> 0, n |-> 0, a |-> 0, vt |-> "int", ival |-> 0,
              sval |-> <<>>, allow |-> {}, fn |-> "none"]

\* __sendwritecmd(reg, val, a) with an integer val
sendwritecmd_int(reg, val) == [Instr("write") EXCEPT !.reg = reg, !.ival = val]

\* __sendwritecmd(reg, val, a) with a text val
sendwritecmd_str(reg, val, a) ==
    [Instr("write") EXCEPT !.reg = reg, !.vt = "str", !.sval = val, !.a = a]

\* __getdata(reg, n, a)
getdata(reg, n, a) == [Instr("read") EXCEPT !.reg = reg, !.n = n, !.a = a]

\* a variant of setaction that sends its command a second time
setaction_twice(name) ==
    <<sendwritecmd_str(ACTION_REG, action(name), 0), sendwritecmd_str(ACTION_REG, action(name), 0)>>

\* __setaction(action)
setaction(name) == <<sendwritecmd_str(ACTION_REG, action(name), 0)>>

\* the body of getmode: read the mode register, decode it
getmode_body == <<getdata(MODE, 1, 0), Instr("decodemode")>>

\* the mode check of a start operation
requiremode(names) == [Instr("require") EXCEPT !.allow = names]

return(fn) == <<[Instr("return") EXCEPT !.fn = fn]>>

\* a variant of refusemode that refuses the sweep mode of the other channel
refusemode_other(names) == [Instr("refuse") EXCEPT !.allow = {SWEEP_CH1, SWEEP_CH2} \ names]

\* the mode check of setfrequency: the call is refused in the modes named
refusemode(names) == [Instr("refuse") EXCEPT !.allow = names]

\* an argument check made after the mode was read: it raises e
raise(e) == <<[Instr("raise") EXCEPT !.fn = e]>>

\* a variant of skipifmode that never finds the channel active
skipifmode_never(names) == [Instr("skipif") EXCEPT !.allow = {}]

\* the test of sweep_setchannel for the channel that is active already
skipifmode(names) == [Instr("skipif") EXCEPT !.allow = names]

\* __freqmultiply, as the number of decimal places it adds: 1, 1, 1, 1/1000, 1/1000000
freqmultiply == <<0, 0, 0, 3, 6>>

\* a variant of setfrequency_check with the cap of 60 MHz for every multiplier
setfrequency_check_onecap(freq, multiplier) ==
    IF ~ PyIndexOk(freqmultiply, multiplier) THEN "TypeError"
    ELSE IF freq > 60000000 THEN "ValueError" ELSE ""

\* setfrequency's checks of multiplier and frequency, made after the mode check;
\* raise ValueError[multiplier] is itself a TypeError
setfrequency_check(freq, multiplier) ==
    IF ~ PyIndexOk(freqmultiply, multiplier) THEN "TypeError"
    ELSE IF multiplier < 3 THEN (IF freq > 60000000 THEN "ValueError" ELSE "")
    ELSE IF multiplier = 3 THEN (IF freq > 80000 THEN "ValueError" ELSE "")
    ELSE (IF freq > 80 THEN "ValueError" ELSE "")

\* str(n * 10^z) for n >= 0, written out digit by digit (the product itself
\* does not fit the integers of the model checker)
RECURSIVE Zeros(_)
Zeros(z) == IF z = 0 THEN <<>> ELSE <<"0">> \o Zeros(z - 1)

StrTimesPow10(n, z) == IF n = 0 THEN <<"0">> ELSE str(n) \o Zeros(z)

\* the value setfrequency writes for an integer freq:
\* str(int(round(freq*100/__freqmultiply[multiplier]))) + "," + str(multiplier)
setfrequency_value(freq, multiplier) ==
    StrTimesPow10(freq, 2 + PyIndex(freqmultiply, multiplier)) \o <<",">> \o str(multiplier)

\* counter_reset / burst_resetcounter
counter_reset == <<sendwritecmd_int(COUNTER_RESETCOUNTER, 0)>>

burst_resetcounter == counter_reset

\* setmode's search of a name in __modes: the index of the first match, 0 if none
ModeNameIndex(name) ==
    IF \E i \in 1..Len(modes) : upper(name) = modes[i].txt
    THEN Min({i \in 1..Len(modes) : upper(name) = modes[i].txt})
    ELSE 0

\* a variant of setmode_check without the test for mode 3
setmode_check_allow3(targ, iarg, sarg) ==
    IF targ = "int"
    THEN IF ~ (0 <= iarg /\ iarg <= 9) THEN [exc |-> "ValueError", modeid |-> -1]
         ELSE [exc |-> "", modeid |-> iarg]
    ELSE IF ModeNameIndex(sarg) = 0 THEN [exc |-> "ValueError", modeid |-> -1]
         ELSE [exc |-> "", modeid |-> modes[ModeNameIndex(sarg)].id]

\* setmode's argument check: the mode id to write, or ValueError
setmode_check(targ, iarg, sarg) ==
    IF targ = "int"
    THEN IF ~ (0 <= iarg /\ iarg <= 9) THEN [exc |-> "ValueError", modeid |-> -1]
         ELSE IF iarg = 3 THEN [exc |-> "ValueError", modeid |-> -1]
         ELSE [exc |-> "", modeid |-> iarg]
    ELSE IF sarg = <<>> THEN [exc |-> "ValueError", modeid |-> -1]
         ELSE IF ModeNameIndex(sarg) = 0 THEN [exc |-> "ValueError", modeid |-> -1]
         ELSE [exc |-> "", modeid |-> modes[ModeNameIndex(sarg)].id]

\* a variant of setmode_body that writes the mode before it stops the actions
setmode_body_modefirst(modeid, nostop) ==
    <<sendwritecmd_int(MODE, modeid)>>
        \o (IF nostop = FALSE THEN setaction("STOP") ELSE <<>>)
        \o (IF modeid = 9 THEN burst_resetcounter ELSE <<>>)

\* setmode after its argument check: the writes it makes, in order
setmode_body(modeid, nostop) ==
    (IF nostop = FALSE THEN setaction("STOP") ELSE <<>>)
        \o <<sendwritecmd_int(MODE, modeid)>>
        \o (IF modeid = 9 THEN burst_resetcounter ELSE <<>>)

\* ------------------------------------------------------------------ device

\* a reply line as the device sends it, terminated by CR LF
Line(s) == s \o <<"\r", "\n">>

\* the values the device may hold in a register
DevValues(reg) ==
    IF reg = MODE
    THEN {0, 7, 8, 24, 32, 48, 64, 72, 80, 88, 96, 104, 112, -8, -56, -120}
    ELSE IF SYSTEM_SOUND <= reg /\ reg <= SYSTEM_ARBMAXNUM + 1
    THEN {-3, -1, 0, 1, 2}
    ELSE IF reg = BURST_MODE
    THEN {-5, -1, 0, 3, 4}
    ELSE IF reg \in {WAVEFORM1, WAVEFORM1 + 1}
    THEN {-18, -1, 0, 16, 17, 100, 101, 160, 161}
    ELSE {1234}

\* a well-formed reply line to a read of register reg
GoodRead(c, reg, valtxt) ==
    Line(<<":", c>> \o reg2txt(reg) \o <<"=">> \o valtxt \o <<".">>)

\* replies a noisy line may deliver for any register
NoiseReplies(c, reg) ==
    { GoodRead(c, reg + 1, <<"0">>),
      GoodRead(c, reg - 1, <<"0">>),
      GoodRead(IF c = "r" THEN "b" ELSE "r", reg, <<"0">>),
      GoodRead(c, reg, <<"0", ",", "1">>),
      GoodRead(c, reg, <<"0", ",", ",", "1">>),
      GoodRead(c, reg, <<"x">>),
      Line(<<":", c>> \o reg2txt(reg) \o <<"=", "0">>),
      Line(<<":", c>> \o reg2txt(reg) \o <<" ", "0", ".">>),
      Line(AckToken),
      Line(<<BadByte>>) }

\* further malformed replies, tried on the mode register
MoreNoiseReplies(c, reg) ==
    { GoodRead(c, reg, <<>>),
      GoodRead(c, reg, <<"0", ".">>),
      Line(<<":", c>> \o reg2txt(reg) \o <<"=", "0", "=", "1", ".">>),
      <<":", c>> \o reg2txt(reg) \o <<"=", "0", ".">>,
      Line(<<" ">> \o GoodRead(c, reg, <<"0">>)),
      Line(<<>>) }

\* replies of five fields, as the sync register gives them
SyncReplies(c, reg) ==
    { GoodRead(c, reg, <<"1", ",", "0", ",", "0", ",", "1", ",", "1">>),
      GoodRead(c, reg, <<"1", ",", "0", ",", "2", ",", "1", ",", "1">>) }

\* replies of a time and its unit, as the pulse registers give them
PulseReplies(c, reg) ==
    { GoodRead(c, reg, <<"5", "0", "0", ",", "0">>),
      GoodRead(c, reg, <<"5", "0", "0", ",", "2">>),
      GoodRead(c, reg, <<"5", "0", "0", ",", "-", "1">>) }

\* what the device (or a noisy line) may send for one line of a read
ReadReplies(c, reg) ==
    {GoodRead(c, reg, str(v)) : v \in DevValues(reg)}
    \cup NoiseReplies(c, reg)
    \cup (IF reg = MODE THEN MoreNoiseReplies(c, reg) ELSE {})
    \cup (IF reg \in {SYSTEM_SYNC, SYSTEM_SYNC + 1} THEN SyncReplies(c, reg) ELSE {})
    \cup (IF reg \in {PULSE_PULSEWIDTH, PULSE_PERIOD} THEN PulseReplies(c, reg) ELSE {})

\* what the device (or a noisy line) may send in answer to a write
AckReplies ==
    { Line(AckToken),
      AckToken,
      Line(AckToken \o <<" ">>),
      Line(<<" ">> \o AckToken),
      Line(<<":", "O", "K">>),
      Line(<<":", "o", "k", "k">>),
      Line(<<":", "e", "r", "r">>),
      Line(<<>>),
      Line(<<BadByte>>) }

\* a waveform of the right size and range, with samples of one to four digits
MixWave == [i \in 1..ARB_LEN |-> (i * 37) % 4096]

\* the sample lists the device may send for a slot: here a reply cut short
DevWaves == {<<7, 4095, 0>>}

\* a reply line to a waveform read: the samples, then a trailing comma or none
WaveLine(slot, wave, tail) ==
    Line(<<":", "b">> \o reg2txt(slot) \o <<"=">> \o JoinRange(wave, 1, Len(wave)) \o tail)

\* what the device (or a noisy line) may send in answer to a waveform read
WaveReplies(slot) ==
    {WaveLine(slot, w, t) : w \in DevWaves, t \in {<<>>, <<",">>, <<".">>}}
    \cup NoiseReplies("b", slot)

\* the value text of a waveform reply: the samples, then what follows them
WaveText(wave, tail) == JoinRange(wave, 1, Len(wave)) \o tail

\* replies to a waveform read that carry a full waveform or nearly: 2048
\* samples, with a trailing comma, one sample short, one sample more, and
\* more samples after an empty field
FullWaveReplies(slot) ==
    {Line(<<":", "b">> \o reg2txt(slot) \o <<"=">> \o v) :
        v \in { WaveText(MixWave, <<>>),
                WaveText(MixWave, <<",">>),
                WaveText(SubSeq(MixWave, 1, ARB_LEN - 1), <<",">>),
                WaveText(MixWave, <<",", "5">>),
                WaveText(MixWave, <<",", ",", "5">>) }}

\* the lines the device may send for the queue entry e
DeviceLines(e) ==
    IF e.c \in {"w", "a"} THEN AckReplies
    ELSE IF e.c = "b" THEN WaveReplies(e.reg)
    ELSE ReadReplies(e.c, e.reg)

\* ------------------------------------------------------------------- state

VARIABLES
    ser_is_open,  \* jds6600.ser.is_open
    rxq,          \* reply lines the device owes for the commands written
    calls,        \* API calls made so far
    pc,           \* "idle", "run", "ack" (in __sendwritecmd), "recv" (in
                  \* __getrespondsandparse), "done" (returned or raised)
    api,          \* the API call in progress, or the last one
    todo,         \* what the call still has to do
    log,          \* the serial I/O of the call: commands written, lines read
    vals,         \* ret of __getrespondsandparse
    mode,         \* the pair getmode returned to the call
    status,       \* "none", "run", "ok" (returned), "err" (raised)
    exc,          \* the exception raised
    excarg,       \* the text an UnexpectedReplyError carries
    retval,       \* the value returned
    dev,          \* the instrument: whether it keeps what is written to it, and
                  \* the registers and waveform slots written so far
    caller,       \* what the caller has set with success on an instrument that
                  \* keeps values: register (a = 0) or slot (a = 1), and the
                  \* argument or the waveform; and the measurements it has got
                  \* from the single getters (a = 2) and measure_getall (a = 3)
    clients,      \* the objects of the class: the class attribute ser (the
                  \* connection it is bound to), the port of every connection
                  \* opened, the connection each object opened, and which
                  \* connection each object has written to and read from
    bode          \* the Bode sweep of bode.py: where the script is, the
                  \* frequencies, the samples taken, the file written

vars == <<ser_is_open, rxq, calls, pc, api, todo, log, vals, mode, status, exc,
          excarg, retval, dev, caller, clients, bode>>

NoApi == [name |-> "none", targ |-> "none", iarg |-> 0, sarg |-> <<>>, nostop |-> FALSE,
          wave |-> <<>>, chan |-> 0, mult |-> 0, bugfix |-> TRUE]

NoRet == [kind |-> "none", id |-> 0, txt |-> <<>>, scalar |-> FALSE, list |-> <<>>]

\* no object of the class made yet: the class attribute ser is None (0)
NoClients == [ser |-> 0, port |-> <<>>, own |-> <<>>, used |-> {}]

\* no sweep is made
NoBode == [at |-> "off", freqs |-> <<>>, PHASE |-> FALSE, file |-> FALSE,
           volts |-> <<>>, phases |-> <<>>, rows |-> <<>>, closed |-> FALSE]

\* an instrument of which nothing is known: it answers as it likes
AnyDevice == [stores |-> FALSE, mem |-> {}]

\* the constructor: serial.Serial(port=fname) opens the port unless fname is None
Init ==
    /\ ser_is_open \in BOOLEAN
    /\ rxq = <<>>
    /\ calls = 0
    /\ pc = "idle"
    /\ api = NoApi
    /\ todo = <<>>
    /\ log = <<>>
    /\ vals = <<>>
    /\ mode = NoMode
    /\ status = "none"
    /\ exc = ""
    /\ excarg = <<>>
    /\ retval = NoRet
    /\ dev = AnyDevice
    /\ caller = {}
    /\ clients = NoClients
    /\ bode = NoBode

\* no call is in progress: the caller may make the next one
Idle == pc = "idle" /\ calls < MaxCalls

\* the entry of an API call: its argument checks, then its body
Begin(a, err, body) ==
    /\ calls' = calls + 1
    /\ api' = a
    /\ IF err # ""
       THEN status' = "err" /\ exc' = err /\ pc' = "done" /\ todo' = <<>>
       ELSE status' = "run" /\ exc' = "" /\ pc' = "run" /\ todo' = body
    /\ UNCHANGED <<ser_is_open, rxq, log, vals, mode, excarg, retval, dev, caller, clients, bode>>

\* an exception leaves the call
Raise(e, arg) ==
    /\ status' = "err"
    /\ exc' = e
    /\ excarg' = arg
    /\ pc' = "done"
    /\ todo' = <<>>

\* the getters of single measurements and the registers they read
MeasureGetter ==
    [measure_getfreq_f |-> MEASURE_DATA_FREQ_LOWRES,
     measure_getfreq_p |-> MEASURE_DATA_FREQ_LOWRES + 1,
     measure_getpw1 |-> MEASURE_DATA_FREQ_LOWRES + 2,
     measure_getpw0 |-> MEASURE_DATA_FREQ_LOWRES + 3,
     measure_getperiod |-> MEASURE_DATA_FREQ_LOWRES + 4,
     measure_getdutycycle |-> MEASURE_DATA_FREQ_LOWRES + 5]

\* the register a setter with a scaled argument writes for channel 0 (the
\* channels count from 1; setphase has no channel)
SetRegister == [setamplitude |-> AMPLITUDE1 - 1, setoffset |-> OFFSET1 - 1,
                setdutycycle |-> DUTYCYCLE1 - 1, setphase |-> PHASE]

\* the caller has the result (or the exception) of the call and goes on; the
\* client keeps nothing of a call but the connection; the caller remembers
\* the argument of a setter that returned
Resume ==
    /\ pc = "done"
    /\ pc' = "idle"
    /\ api' = NoApi
    /\ log' = <<>>
    /\ vals' = <<>>
    /\ mode' = NoMode
    /\ status' = "none"
    /\ exc' = ""
    /\ excarg' = <<>>
    /\ retval' = NoRet
    /\ caller' = IF ~ dev.stores THEN caller
                 ELSE IF status = "ok" /\ api.name \in DOMAIN SetRegister
                 THEN {h \in caller : ~ (h.a = 0 /\ h.reg = SetRegister[api.name] + api.chan)}
                          \cup {[a |-> 0, reg |-> SetRegister[api.name] + api.chan,
                                 arg |-> api.iarg, den |-> 1, wave |-> <<>>,
                                 txt |-> <<>>, mult |-> 0]}
                 ELSE IF status = "ok" /\ api.name = "setwaveform"
                 THEN {h \in caller : ~ (h.a = 0 /\ h.reg = WAVEFORM1 + api.chan - 1)}
                          \cup {[a |-> 0, reg |-> WAVEFORM1 + api.chan - 1,
                                 arg |-> api.iarg, den |-> 1, wave |-> <<>>,
                                 txt |-> api.sarg, mult |-> 0]}
                 ELSE IF status = "ok" /\ api.name = "setfrequency"
                 THEN {h \in caller : ~ (h.a = 0 /\ h.reg = FREQUENCY1 + api.chan - 1)}
                          \cup {[a |-> 0, reg |-> FREQUENCY1 + api.chan - 1,
                                 arg |-> api.iarg, den |-> 1, wave |-> <<>>,
                                 txt |-> <<>>, mult |-> api.mult]}
                 ELSE IF status = "ok" /\ api.name = "arb_setwave"
                 THEN {h \in caller : ~ (h.a = 1 /\ h.reg = api.iarg)}
                          \cup {[a |-> 1, reg |-> api.iarg, arg |-> 0, den |-> 1,
                                 wave |-> api.wave, txt |-> <<>>, mult |-> 0]}
                 ELSE IF status = "ok" /\ api.name \in DOMAIN MeasureGetter
                 THEN caller \cup {[a |-> 2, reg |-> MeasureGetter[api.name],
                                    arg |-> retval.list[1].num, den |-> retval.list[1].den,
                                    wave |-> <<>>, txt |-> <<>>, mult |-> 0]}
                 ELSE IF status = "ok" /\ api.name = "measure_getall"
                 THEN caller \cup {[a |-> 3, reg |-> MEASURE_DATA_FREQ_LOWRES + k - 1,
                                    arg |-> retval.list[k].num, den |-> retval.list[k].den,
                                    wave |-> <<>>, txt |-> <<>>, mult |-> 0] : k \in 1..Len(retval.list)}
                 ELSE caller
    /\ UNCHANGED <<ser_is_open, rxq, calls, todo, dev, clients, bode>>

\* the instrument has a value for the register (a = 0) or the slot (a = 1)
Has(a, reg) == \E m \in dev.mem : m.a = a /\ m.reg = reg

Kept(a, reg) == (CHOOSE m \in dev.mem : m.a = a /\ m.reg = reg).val

\* the instrument after the write of val: one that keeps values has the new one
Store(a, reg, val) ==
    IF dev.stores
    THEN [dev EXCEPT !.mem = {m \in @ : ~ (m.a = a /\ m.reg = reg)}
                                \cup {[a |-> a, reg |-> reg, val |-> val]}]
    ELSE dev

\* the lines an instrument that keeps values sends for the queue entry e: the
\* acknowledgement, the value kept (a waveform with a trailing comma or
\* without), and for what was never written any well-formed answer
KeptLines(e) ==
    IF e.c \in {"w", "a"} THEN {Line(AckToken)}
    ELSE IF e.c = "r"
    THEN IF Has(0, e.reg) THEN {GoodRead("r", e.reg, Kept(0, e.reg))}
         ELSE {GoodRead("r", e.reg, str(v)) : v \in DevValues(e.reg)}
    ELSE IF Has(1, e.reg)
    THEN {Line(<<":", "b">> \o reg2txt(e.reg) \o <<"=">> \o Kept(1, e.reg) \o t) :
              t \in {<<>>, <<",">>}}
    ELSE FullWaveReplies(e.reg)

\* what readline() may return: nothing within the timeout (the reply, if any,
\* stays owed), or the next line the device sends; an instrument that keeps
\* values answers in time
Incoming ==
    (IF dev.stores /\ rxq # <<>> THEN {}
     ELSE {[bytes |-> <<>>, stale |-> FALSE, rest |-> rxq]})
    \cup (IF rxq = <<>> THEN {}
          ELSE {[bytes |-> b, stale |-> ~ Head(rxq).cur, rest |-> Tail(rxq)] :
                    b \in (IF dev.stores THEN KeptLines(Head(rxq))
                           ELSE DeviceLines(Head(rxq)))})

Written(data) == [ev |-> "w", data |-> data, stale |-> FALSE, pend |-> Len(rxq)]

ReadEv(in) == [ev |-> "r", data |-> in.bytes, stale |-> in.stale, pend |-> 0]

\* the replies owed so far now belong to an earlier command
Outdated(q) == [i \in 1..Len(q) |-> [q[i] EXCEPT !.cur = FALSE]]

Owed(c, reg, n) == [i \in 1..n |-> [c |-> c, reg |-> reg + i - 1, cur |-> TRUE]]

\* ---------------------------------------------------------------- API calls

Call(name) == [NoApi EXCEPT !.name = name]

\* the integer and the text arguments setmode is called with
SetmodeInts == -1..10

SetmodeNames == { <<>>, <<"b", "u", "r", "s", "t">>, SWEEP_CH1,
                  <<"W", "a", "v", "e", "_", "c", "h", "1">>, <<"F", "O", "O">> }

getmode ==
    /\ Idle
    /\ Begin(Call("getmode"), "", getmode_body \o return("mode"))

setmode ==
    /\ Idle
    /\ \E targ \in {"int", "str"}, nostop \in BOOLEAN :
        \E iarg \in (IF targ = "int" THEN SetmodeInts ELSE {0}),
           sarg \in (IF targ = "str" THEN SetmodeNames ELSE {<<>>}) :
          LET chk == setmode_check(targ, iarg, sarg)
          IN  Begin([Call("setmode") EXCEPT !.targ = targ, !.iarg = iarg, !.sarg = sarg,
                                            !.nostop = nostop],
                    chk.exc,
                    setmode_body(chk.modeid, nostop) \o return("none"))

StopOps == {"stopallactions", "counter_stop", "sweep_stop", "pulse_stop", "burst_stop"}

\* stopallactions, counter_stop, sweep_stop, pulse_stop, burst_stop
stop(name) ==
    /\ Idle
    /\ Begin(Call(name), "", setaction("STOP") \o return("none"))

\* a variant of start_body without the mode check
start_body_nocheck(names, act) ==
    getmode_body \o setaction(act) \o return("none")

\* a variant of start_body that starts the action before it checks the mode
start_body_actfirst(names, act) ==
    getmode_body \o setaction(act) \o <<requiremode(names)>> \o return("none")

\* the body shared by the four start operations
start_body(names, act) ==
    getmode_body \o <<requiremode(names)>> \o setaction(act) \o return("none")

counter_start ==
    /\ Idle
    /\ Begin(Call("counter_start"), "", start_body({COUNTER}, "COUNT"))

sweep_start ==
    /\ Idle
    /\ Begin(Call("sweep_start"), "", start_body({SWEEP_CH1, SWEEP_CH2}, "SWEEP"))

pulse_start ==
    /\ Idle
    /\ Begin(Call("pulse_start"), "", start_body({PULSE}, "PULSE"))

burst_start ==
    /\ Idle
    /\ Begin(Call("burst_start"), "", start_body({BURST}, "BURST"))

\* the name of the sweep mode of a channel
SweepMode(channel) == IF channel = 1 THEN SWEEP_CH1 ELSE SWEEP_CH2

\* the channels sweep_setchannel and setfrequency are called with
Channels == {0, 1, 2, 3}

sweep_setchannel ==
    /\ Idle
    /\ \E channel \in Channels :
        Begin([Call("sweep_setchannel") EXCEPT !.chan = channel],
              IF channel \notin {1, 2} THEN "ValueError" ELSE "",
              getmode_body \o <<requiremode({SWEEP_CH1, SWEEP_CH2}),
                                skipifmode({SweepMode(channel)})>>
                  \o setmode_body(setmode_check("str", 0, SweepMode(channel)).modeid, TRUE)
                  \o return("none"))

\* the frequencies (whole Hz) and multipliers setfrequency is called with
FreqArgs == { <<0, 0>>, <<1000, 0>>, <<-1, 0>>,
              <<60000000, 0>>, <<60000001, 0>>, <<60000000, 1>>, <<60000001, 1>>,
              <<60000000, 2>>, <<60000001, 2>>,
              <<80000, 3>>, <<80001, 3>>, <<80, 4>>, <<81, 4>>, <<1, 5>>,
              <<5, 3>>, <<2, 4>>, <<1, -1>> }

\* setfrequency(channel, freq, multiplier)
setfrequency_call(channel, freq, multiplier) ==
    Begin([Call("setfrequency") EXCEPT !.chan = channel, !.iarg = freq, !.mult = multiplier],
          IF channel \notin {1, 2} THEN "ValueError"
          ELSE IF freq < 0 THEN "ValueError" ELSE "",
          getmode_body \o <<refusemode({SweepMode(channel)})>>
              \o (IF setfrequency_check(freq, multiplier) # ""
                  THEN raise(setfrequency_check(freq, multiplier))
                  ELSE <<sendwritecmd_str(FREQUENCY1 + channel - 1,
                                          setfrequency_value(freq, multiplier), 0)>>
                           \o return("none")))

setfrequency ==
    /\ Idle
    /\ \E channel \in Channels, fm \in FreqArgs : setfrequency_call(channel, fm[1], fm[2])

\* int(round(k / d)) for d > 0: Python rounds a half to the even neighbour
RoundHalfEven(k, d) ==
    LET q == k \div d
        r == k % d
    IN  IF 2 * r < d THEN q
        ELSE IF 2 * r > d THEN q + 1
        ELSE IF q % 2 = 0 THEN q ELSE q + 1

\* The arguments of the setters below are exact fractions: an argument k
\* stands for k quarters of the step of the register (k/4000 V of amplitude,
\* k/400 V of offset, k/40 % of duty cycle, k/40 degrees of phase).

\* setamplitude: int(round(amplitude*1000))
setamplitude_value(k) == RoundHalfEven(k, 4)

\* a variant of setoffset_value that leaves out the bias of 1000
setoffset_value_nobias(k) == RoundHalfEven(k, 4)

\* setoffset: int(round(offset*100))+1000
setoffset_value(k) == RoundHalfEven(k, 4) + 1000

\* setdutycycle: int(round(dutycycle*10))
setdutycycle_value(k) == RoundHalfEven(k, 4)

\* setphase: phase += 3600 if phase < 0, then int(round(phase*10))
setphase_value(k) == RoundHalfEven(IF k < 0 THEN k + 3600 * 40 ELSE k, 4)

\* the channel check and the range check of a setter
range_check(channel, k, lo, hi) ==
    IF channel \notin {1, 2} THEN "ValueError"
    ELSE IF ~ (lo <= k /\ k <= hi) THEN "ValueError" ELSE ""

\* the (channel, argument) pairs the setters are called with: both ends of the
\* range, one step and less than a step beyond them, halves of a step
AmplitudeArgs == {<<1, k>> : k \in {-4, -1, 0, 2, 6, 20000, 79998, 80000, 80001, 80004}}
                     \cup {<<2, 20000>>, <<0, 20000>>}

OffsetArgs == {<<1, k>> : k \in {-4004, -4001, -4000, -3998, 0, 1000, 4000, 4001, 4004}}
                  \cup {<<2, -1000>>, <<3, 0>>}

DutyArgs == {<<1, k>> : k \in {-4, 0, 2, 2000, 4000, 4004}} \cup {<<2, 1001>>, <<0, 2000>>}

PhaseArgs == {-14404, -14400, -14398, -3600, -1, 0, 2, 3600, 14400, 14404}

setamplitude ==
    /\ Idle
    /\ \E ck \in AmplitudeArgs :
        Begin([Call("setamplitude") EXCEPT !.chan = ck[1], !.iarg = ck[2]],
              range_check(ck[1], ck[2], 0, 20 * 4000),
              <<sendwritecmd_int(AMPLITUDE1 + ck[1] - 1, setamplitude_value(ck[2]))>>
                  \o return("none"))

setoffset ==
    /\ Idle
    /\ \E ck \in OffsetArgs :
        Begin([Call("setoffset") EXCEPT !.chan = ck[1], !.iarg = ck[2]],
              range_check(ck[1], ck[2], -10 * 400, 10 * 400),
              <<sendwritecmd_int(OFFSET1 + ck[1] - 1, setoffset_value(ck[2]))>>
                  \o return("none"))

setdutycycle ==
    /\ Idle
    /\ \E ck \in DutyArgs :
        Begin([Call("setdutycycle") EXCEPT !.chan = ck[1], !.iarg = ck[2]],
              range_check(ck[1], ck[2], 0, 100 * 40),
              <<sendwritecmd_int(DUTYCYCLE1 + ck[1] - 1, setdutycycle_value(ck[2]))>>
                  \o return("none"))

setphase ==
    /\ Idle
    /\ \E k \in PhaseArgs :
        Begin([Call("setphase") EXCEPT !.iarg = k],
              range_check(1, k, -360 * 40, 360 * 40),
              <<sendwritecmd_int(PHASE, setphase_value(k))>> \o return("none"))

\* return (value - bias) / den
scaled(bias, den) == <<[Instr("return") EXCEPT !.fn = "scaled", !.ival = bias, !.n = den]>>

\* a variant of getscaled that reads the register of channel 1 for either channel
getscaled_first(name, channel, reg, bias, den) ==
    Begin([Call(name) EXCEPT !.chan = channel],
          IF channel \notin {1, 2} THEN "ValueError" ELSE "",
          <<getdata(reg, 1, 0)>> \o scaled(bias, den))

\* getamplitude, getoffset, getdutycycle: the channel check, the read, the scaling
getscaled(name, channel, reg, bias, den) ==
    Begin([Call(name) EXCEPT !.chan = channel],
          IF channel \notin {1, 2} THEN "ValueError" ELSE "",
          <<getdata(reg + channel - 1, 1, 0)>> \o scaled(bias, den))

getamplitude ==
    /\ Idle
    /\ \E channel \in {0, 1, 2} : getscaled("getamplitude", channel, AMPLITUDE1, 0, 1000)

getoffset ==
    /\ Idle
    /\ \E channel \in {1, 2, 3} : getscaled("getoffset", channel, OFFSET1, 1000, 100)

getdutycycle ==
    /\ Idle
    /\ \E channel \in {0, 1, 2} : getscaled("getdutycycle", channel, DUTYCYCLE1, 0, 10)

getphase ==
    /\ Idle
    /\ Begin(Call("getphase"), "", <<getdata(PHASE, 1, 0)>> \o scaled(0, 10))

\* ---- device information ----

getinfo_devicetype ==
    /\ Idle
    /\ Begin(Call("getinfo_devicetype"), "", <<getdata(DEVICETYPE, 1, 0)>> \o return("data"))

getinfo_serialnumber ==
    /\ Idle
    /\ Begin(Call("getinfo_serialnumber"), "", <<getdata(SERIALNUMBER, 1, 0)>> \o return("data"))
\* ---- waveform and frequency of a channel ----

\* setwaveform's check of its waveform argument: an integer must index __wave
\* (below 101; a negative index counts from the end of the tuple) or __awave
\* (from 101); a name is upper-cased and looked up in __wave, then in __awave
setwaveform_check(targ, iarg, sarg) ==
    IF targ = "int"
    THEN IF iarg < 101
         THEN (IF PyIndexOk(wavenames, iarg) THEN [exc |-> "", w |-> iarg]
               ELSE [exc |-> "ValueError", w |-> 0])
         ELSE (IF PyIndexOk(awave, iarg - 101) THEN [exc |-> "", w |-> iarg]
               ELSE [exc |-> "ValueError", w |-> 0])
    ELSE IF TableIndex(wavenames, upper(sarg)) # -1
    THEN [exc |-> "", w |-> TableIndex(wavenames, upper(sarg))]
    ELSE IF TableIndex(awave, upper(sarg)) # -1
    THEN [exc |-> "", w |-> TableIndex(awave, upper(sarg)) + 101]
    ELSE [exc |-> "ValueError", w |-> 0]

\* the waveforms setwaveform is called with: integers, names, something else
WaveArgs ==
    {[t |-> "int", i |-> i, s |-> <<>>] : i \in {-1, 0, 16, 17, 101, 160, 161}}
    \cup {[t |-> "str", i |-> 0, s |-> s] :
            s \in {<<"S", "I", "N", "E">>, <<"s", "i", "n", "e">>,
                   <<"S", "q", "u", "a", "r", "e">>,
                   <<"a", "r", "b", "i", "t", "r", "a", "r", "y", "6", "0">>,
                   <<"A", "R", "B", "I", "T", "R", "A", "R", "Y", "6", "1">>}}
    \cup {[t |-> "other", i |-> 0, s |-> <<>>]}

setwaveform ==
    /\ Idle
    /\ \E channel \in {0, 1, 2}, arg \in WaveArgs :
        Begin([Call("setwaveform") EXCEPT !.chan = channel, !.targ = arg.t,
                                          !.iarg = arg.i, !.sarg = arg.s],
              IF arg.t = "other" THEN "TypeError"
              ELSE IF channel \notin {1, 2} THEN "ValueError"
              ELSE setwaveform_check(arg.t, arg.i, arg.s).exc,
              <<sendwritecmd_int(WAVEFORM1 + channel - 1,
                                 setwaveform_check(arg.t, arg.i, arg.s).w)>>
                  \o return("none"))

getwaveform ==
    /\ Idle
    /\ \E channel \in {0, 1, 2} :
        Begin([Call("getwaveform") EXCEPT !.chan = channel],
              IF channel \notin {1, 2} THEN "ValueError" ELSE "",
              <<getdata(WAVEFORM1 + channel - 1, 1, 0)>> \o return("waveform"))

getfrequency ==
    /\ Idle
    /\ \E channel \in {0, 1, 2} :
        Begin([Call("getfrequency") EXCEPT !.chan = channel],
              IF channel \notin {1, 2} THEN "ValueError" ELSE "",
              <<getdata(FREQUENCY1 + channel - 1, 1, 0)>> \o return("frequency"))

\* getfrequency_m: the frequency as getfrequency returns it, and the multiplier
getfrequency_m ==
    /\ Idle
    /\ \E channel \in {0, 1, 2} :
        Begin([Call("getfrequency_m") EXCEPT !.chan = channel],
              IF channel \notin {1, 2} THEN "ValueError" ELSE "",
              <<getdata(FREQUENCY1 + channel - 1, 1, 0)>> \o return("frequency_m"))

\* setfrequency with a frequency whose register value the instrument can give
\* back within the integers of the model checker (nine digits)
setfrequency_low ==
    /\ setfrequency
    /\ PyIndexOk(freqmultiply, api'.mult) =>
           Len(setfrequency_value(api'.iarg, api'.mult)) <= 11


\* ---- system settings ----

\* a variant of system_get that reads the register above whatever bugfix is
system_get_always(name, reg, bugfix, fn) ==
    Begin([Call(name) EXCEPT !.bugfix = bugfix], "",
          <<getdata(reg + 1, 1, 0)>> \o return(fn))

\* a system getter: it reads the register above the one written unless
\* bugfix is False
system_get(name, reg, bugfix, fn) ==
    Begin([Call(name) EXCEPT !.bugfix = bugfix], "",
          <<getdata(IF bugfix THEN reg + 1 ELSE reg, 1, 0)>> \o return(fn))

system_getsound ==
    /\ Idle
    /\ \E bugfix \in BOOLEAN : system_get("system_getsound", SYSTEM_SOUND, bugfix, "sound")

system_getbrightness ==
    /\ Idle
    /\ \E bugfix \in BOOLEAN :
        system_get("system_getbrightness", SYSTEM_BRIGHTNESS, bugfix, "data")

system_getlanguage ==
    /\ Idle
    /\ \E bugfix \in BOOLEAN :
        system_get("system_getlanguage", SYSTEM_LANGUAGE, bugfix, "language")

system_getsync ==
    /\ Idle
    /\ \E bugfix \in BOOLEAN : system_get("system_getsync", SYSTEM_SYNC, bugfix, "sync")

system_getarbmaxnum ==
    /\ Idle
    /\ \E bugfix \in BOOLEAN :
        system_get("system_getarbmaxnum", SYSTEM_ARBMAXNUM, bugfix, "data")

system_setsound ==
    /\ Idle
    /\ \E sound \in BOOLEAN :
        Begin([Call("system_setsound") EXCEPT !.iarg = IF sound THEN 1 ELSE 0], "",
              <<sendwritecmd_int(SYSTEM_SOUND, IF sound THEN 1 ELSE 0)>> \o return("none"))

system_setbrightness ==
    /\ Idle
    /\ \E brightness \in {0, 1, 12, 13} :
        Begin([Call("system_setbrightness") EXCEPT !.iarg = brightness],
              IF ~ (1 <= brightness /\ brightness <= 12) THEN "ValueError" ELSE "",
              <<sendwritecmd_int(SYSTEM_BRIGHTNESS, brightness)>> \o return("none"))

\* system_setlanguage's argument check: the index to write, or the exception;
\* the shortcuts are compared before the name is made upper case, and the
\* raise for a wrong integer names a variable the function does not have
system_setlanguage_check(targ, iarg, sarg) ==
    IF targ = "int"
    THEN IF iarg \notin {0, 1} THEN [exc |-> "NameError", val |-> -1]
         ELSE [exc |-> "", val |-> iarg]
    ELSE LET language == IF sarg = <<"E", "N">> THEN system_language[1]
                         ELSE IF sarg = <<"C", "H">> THEN system_language[2]
                         ELSE sarg
         IN  IF TableIndex(system_language, upper(language)) < 0
             THEN [exc |-> "ValueError", val |-> -1]
             ELSE [exc |-> "", val |-> TableIndex(system_language, upper(language))]

LanguageInts == {-1, 0, 1, 2}

LanguageNames == { <<"E", "N">>, <<"C", "H">>, <<"e", "n">>, <<"c", "h">>,
                   <<"E", "N", "G", "L", "I", "S", "H">>, <<"e", "n", "g", "l", "i", "s", "h">>, <<"C", "h", "i", "n", "e", "s", "e">>,
                   <<"F", "R">>, <<>> }

\* setmode(mode) with the mode getmode has just returned
setmode_read == [Instr("setmoderead") EXCEPT !.fn = "none"]

system_setlanguage ==
    /\ Idle
    /\ \E targ \in {"int", "str"} :
        \E iarg \in (IF targ = "int" THEN LanguageInts ELSE {0}),
           sarg \in (IF targ = "str" THEN LanguageNames ELSE {<<>>}) :
          LET chk == system_setlanguage_check(targ, iarg, sarg)
          IN  Begin([Call("system_setlanguage") EXCEPT !.targ = targ, !.iarg = iarg,
                                                       !.sarg = sarg],
                    chk.exc,
                    <<sendwritecmd_int(SYSTEM_LANGUAGE, chk.val)>> \o getmode_body
                        \o <<setmode_read>> \o return("none"))

SyncArgs == { <<FALSE, FALSE, FALSE, FALSE, FALSE>>, <<TRUE, TRUE, TRUE, TRUE, TRUE>>,
              <<TRUE, FALSE, FALSE, TRUE, FALSE>> }

\* ",".join(sync) of system_setsync
RECURSIVE SyncText(_)
SyncText(bits) ==
    IF bits = <<>> THEN <<>>
    ELSE <<IF Head(bits) THEN "1" ELSE "0">>
             \o (IF Len(bits) = 1 THEN <<>> ELSE <<",">> \o SyncText(Tail(bits)))

system_setsync ==
    /\ Idle
    /\ \E bits \in SyncArgs :
        Begin([Call("system_setsync") EXCEPT !.sarg = SyncText(bits)], "",
              <<sendwritecmd_str(SYSTEM_SYNC, SyncText(bits), 0)>> \o return("none"))

system_setarbmaxnum ==
    /\ Idle
    /\ \E arbmaxnum \in {0, 1, 60, 61} :
        Begin([Call("system_setarbmaxnum") EXCEPT !.iarg = arbmaxnum],
              IF ~ (1 <= arbmaxnum /\ arbmaxnum <= 60) THEN "ValueError" ELSE "",
              <<sendwritecmd_int(SYSTEM_ARBMAXNUM, arbmaxnum)>> \o return("none"))

\* a getter of one measurement: the register read, divided by its unit
measure_get(name, den) ==
    Begin(Call(name), "", <<getdata(MeasureGetter[name], 1, 0)>> \o scaled(0, den))

measure_getfreq_f ==
    /\ Idle
    /\ measure_get("measure_getfreq_f", 10)

measure_getfreq_p ==
    /\ Idle
    /\ measure_get("measure_getfreq_p", 1000)

measure_getpw1 ==
    /\ Idle
    /\ measure_get("measure_getpw1", 100)

measure_getpw0 ==
    /\ Idle
    /\ measure_get("measure_getpw0", 100)

measure_getperiod ==
    /\ Idle
    /\ measure_get("measure_getperiod", 100)

measure_getdutycycle ==
    /\ Idle
    /\ measure_get("measure_getdutycycle", 10)

measure_getall ==
    /\ Idle
    /\ Begin(Call("measure_getall"), "",
             <<getdata(MEASURE_DATA_FREQ_LOWRES, 6, 0)>> \o return("measure_getall"))

\* the slots and the waveforms arb_getwave / arb_setwave are called with
ArbIds == {0, 1, 60, 61}

ZeroWave == [i \in 1..ARB_LEN |-> 0]

ArbWaves == { MixWave, ZeroWave,
              [i \in 1..(ARB_LEN - 1) |-> 0],
              [i \in 1..(ARB_LEN + 1) |-> 0],
              [ZeroWave EXCEPT ![ARB_LEN] = 4096],
              [ZeroWave EXCEPT ![1] = -1] }

arb_getwave ==
    /\ Idle
    /\ \E waveid \in ArbIds :
        Begin([Call("arb_getwave") EXCEPT !.targ = "int", !.iarg = waveid],
              IF ~ (1 <= waveid /\ waveid <= 60) THEN "ValueError" ELSE "",
              <<getdata(waveid, 1, 1)>> \o return("data"))

\* a variant of arb_setwave_check that does not look at the elements
arb_setwave_check_norange(waveid, wave) ==
    IF ~ (1 <= waveid /\ waveid <= 60) THEN "ValueError"
    ELSE IF Len(wave) # ARB_LEN THEN "ValueError"
    ELSE ""

\* arb_setwave's checks of the payload
arb_setwave_check(waveid, wave) ==
    IF ~ (1 <= waveid /\ waveid <= 60) THEN "ValueError"
    ELSE IF Len(wave) # ARB_LEN THEN "ValueError"
    ELSE IF \E i \in 1..Len(wave) : ~ (0 <= wave[i] /\ wave[i] <= 4095) THEN "ValueError"
    ELSE ""

arb_setwave ==
    /\ Idle
    /\ \E waveid \in ArbIds, wave \in ArbWaves :
        Begin([Call("arb_setwave") EXCEPT !.targ = "int", !.iarg = waveid, !.wave = wave],
              arb_setwave_check(waveid, wave),
              IF arb_setwave_check(waveid, wave) = ""
              THEN <<sendwritecmd_str(waveid, JoinRange(wave, 1, Len(wave)), 1)>>
                       \o return("none")
              ELSE <<>>)

\* ---- setters that take a name ----

LowerOf(ch) == IF \E i \in 1..26 : UpperChars[i] = ch
               THEN LowerChars[CHOOSE i \in 1..26 : UpperChars[i] = ch]
               ELSE ch

\* Python str.lower()
lower(s) == [i \in 1..Len(s) |-> LowerOf(s[i])]

\* the spellings a name is passed in: as it is, in lower case, and with lower
\* and upper case in turn
Spellings(s) == {s, lower(s), [i \in 1..Len(s) |-> IF i % 2 = 1 THEN LowerOf(s[i]) ELSE s[i]]}

\* the register, the table and the shortcuts (as pairs of shortcut and table
\* name) of the setters that upper-case the name, replace a shortcut and look
\* the name up with index()
NameSetters ==
    [measure_setcoupling |->
        [reg |-> MEASURE_COUP, table |-> measure_coupling,
         short |-> {<<<<"A", "C">>, <<"A", "C", "(", "E", "X", "T", ".", "I", "N", ")">>>>,
                    <<<<"D", "C">>, <<"D", "C", "(", "E", "X", "T", ".", "I", "N", ")">>>>}],
     measure_setmode |->
        [reg |-> MEASURE_MODE, table |-> measure_mode,
         short |-> {<<<<"F", "R", "E", "Q">>, <<"M", ".", "F", "R", "E", "Q">>>>,
                    <<<<"P", "E", "R", "I", "O", "D">>, <<"M", ".", "P", "E", "R", "I", "O", "D">>>>}],
     sweep_setdirection |->
        [reg |-> SWEEP_DIRECTION, table |-> sweep_direction,
         short |-> {<<<<"R", "I", "S", "E", "F", "A", "L", "L">>, <<"R", "I", "S", "E", "&", "F", "A", "L", "L">>>>,
                    <<<<"B", "O", "T", "H">>, <<"R", "I", "S", "E", "&", "F", "A", "L", "L">>>>}],
     sweep_setmode |->
        [reg |-> SWEEP_MODE, table |-> sweep_mode,
         short |-> {<<<<"L", "I", "N">>, <<"L", "I", "N", "E", "A", "R">>>>,
                    <<<<"L", "O", "G">>, <<"L", "O", "G", "A", "R", "I", "T", "H", "M">>>>}],
     burst_setmode |->
        [reg |-> BURST_MODE, table |-> burst_mode,
         short |-> {<<<<"M", "A", "N", "U", "A", "L">>, <<"M", "A", "N", "U", "A", "L", " ", "T", "R", "I", "G", ".">>>>,
                    <<<<"C", "H", "2">>, <<"C", "H", "2", " ", "T", "R", "I", "G", ".">>>>,
                    <<<<"E", "X", "T", ".", "A", "C">>, <<"E", "X", "T", ".", "T", "R", "I", "G", "(", "A", "C", ")">>>>,
                    <<<<"E", "X", "T", ".", "D", "C">>, <<"E", "X", "T", ".", "T", "R", "I", "G", "(", "D", "C", ")">>>>}]]

\* the argument check of such a setter: an integer must be an index of the
\* table; a name is upper-cased, a shortcut replaced by its table name, and
\* the index of the name in the table is the value to write
name_check(name, targ, iarg, sarg) ==
    LET s == NameSetters[name]
        u == upper(sarg)
        full == IF \E p \in s.short : p[1] = u
                THEN (CHOOSE p \in s.short : p[1] = u)[2]
                ELSE u
    IN  IF targ = "int"
        THEN IF 0 <= iarg /\ iarg < Len(s.table) THEN [exc |-> "", val |-> iarg]
             ELSE [exc |-> "ValueError", val |-> -1]
        ELSE IF TableIndex(s.table, full) < 0 THEN [exc |-> "ValueError", val |-> -1]
             ELSE [exc |-> "", val |-> TableIndex(s.table, full)]

\* the names such a setter is called with: the table names and the shortcuts
\* in three spellings, a name that is not in the table, the empty name
NameArgs(name) ==
    UNION {Spellings(NameSetters[name].table[i]) : i \in 1..Len(NameSetters[name].table)}
    \cup UNION {Spellings(p[1]) : p \in NameSetters[name].short}
    \cup {<<"F", "O", "O">>, <<>>}

\* a variant of name_setter in which burst_setmode writes its register before
\* it stops the burst
name_setter_stoplast(name) ==
    \E targ \in {"int", "str"} :
        \E iarg \in (IF targ = "int" THEN -1..4 ELSE {0}),
           sarg \in (IF targ = "str" THEN NameArgs(name) ELSE {<<>>}) :
          LET chk == name_check(name, targ, iarg, sarg)
          IN  Begin([Call(name) EXCEPT !.targ = targ, !.iarg = iarg, !.sarg = sarg],
                    chk.exc,
                    <<sendwritecmd_int(NameSetters[name].reg, chk.val)>>
                        \o (IF name = "burst_setmode" THEN setaction("STOP") ELSE <<>>)
                        \o return("none"))
\* measure_setcoupling, measure_setmode, sweep_setdirection, sweep_setmode:
\* the check, then the write; burst_setmode stops the burst in between
name_setter(name) ==
    \E targ \in {"int", "str"} :
        \E iarg \in (IF targ = "int" THEN -1..4 ELSE {0}),
           sarg \in (IF targ = "str" THEN NameArgs(name) ELSE {<<>>}) :
          LET chk == name_check(name, targ, iarg, sarg)
          IN  Begin([Call(name) EXCEPT !.targ = targ, !.iarg = iarg, !.sarg = sarg],
                    chk.exc,
                    (IF name = "burst_setmode" THEN setaction("STOP") ELSE <<>>)
                        \o <<sendwritecmd_int(NameSetters[name].reg, chk.val)>>
                        \o return("none"))

measure_setcoupling ==
    /\ Idle
    /\ name_setter("measure_setcoupling")

measure_setmode ==
    /\ Idle
    /\ name_setter("measure_setmode")

sweep_setdirection ==
    /\ Idle
    /\ name_setter("sweep_setdirection")

sweep_setmode ==
    /\ Idle
    /\ name_setter("sweep_setmode")

burst_setmode ==
    /\ Idle
    /\ name_setter("burst_setmode")
\* ---- getters of enumerated values ----

\* pulse_getpulsewidth, pulse_getperiod: the register holds a time and its unit
pulse_get(name, reg) ==
    Begin(Call(name), "", <<getdata(reg, 1, 0)>> \o return("pulse"))

pulse_getpulsewidth ==
    /\ Idle
    /\ pulse_get("pulse_getpulsewidth", PULSE_PULSEWIDTH)

pulse_getperiod ==
    /\ Idle
    /\ pulse_get("pulse_getperiod", PULSE_PERIOD)

burst_getmode ==
    /\ Idle
    /\ Begin(Call("burst_getmode"), "", <<getdata(BURST_MODE, 1, 0)>> \o return("burstmode"))
\* ---- number of bursts, profiles ----

\* the numbers of bursts burst_setnumberofbursts is called with
BurstNumbers == {-1, 0, 1, 2, 1048575, 1048576}

burst_setnumberofbursts ==
    /\ Idle
    /\ \E burst \in BurstNumbers :
        Begin([Call("burst_setnumberofbursts") EXCEPT !.targ = "int", !.iarg = burst],
              IF ~ (1 <= burst /\ burst <= 1048575) THEN "ValueError" ELSE "",
              <<sendwritecmd_int(BURST_NUMBER, burst)>> \o return("none"))

\* the profile numbers the three profile operations are called with
Profiles == {-1, 0, 1, 99, 100}

\* system_saveprofile, system_loadprofile, system_clearprofile: outside 0..99
\* the statement is raise ValueError(errmsg), and there is no errmsg: Python
\* raises NameError when it evaluates the argument
system_profile(name, reg, profile) ==
    Begin([Call(name) EXCEPT !.targ = "int", !.iarg = profile],
          IF ~ (0 <= profile /\ profile <= 99) THEN "NameError" ELSE "",
          <<sendwritecmd_int(reg, profile)>> \o return("none"))

system_saveprofile ==
    /\ Idle
    /\ \E profile \in Profiles : system_profile("system_saveprofile", PROFILE_SAVE, profile)

system_loadprofile ==
    /\ Idle
    /\ \E profile \in Profiles : system_profile("system_loadprofile", PROFILE_LOAD, profile)

system_clearprofile ==
    /\ Idle
    /\ \E profile \in Profiles : system_profile("system_clearprofile", PROFILE_CLEAR, profile)
\* ------------------------------------------------------------ steps of a call

\* __sendwritecmd up to the write: nothing at all happens on a port not open
SendWriteCmd ==
    /\ pc = "run"
    /\ todo # <<>>
    /\ Head(todo).op = "write"
    /\ LET i == Head(todo)
           val == IF i.vt = "int" THEN str(i.ival) ELSE i.sval
       IN  IF ser_is_open
           THEN /\ log' = Append(log, Written(WriteCmd(i.reg, val, i.a)))
                /\ rxq' = Outdated(rxq) \o Owed(WriteChar(i.a), i.reg, 1)
                /\ dev' = Store(i.a, i.reg, val)
                /\ pc' = "ack"
                /\ todo' = todo
           ELSE /\ todo' = Tail(todo)
                /\ UNCHANGED <<log, rxq, pc, dev>>
    /\ UNCHANGED <<ser_is_open, calls, api, vals, mode, status, exc, excarg, retval, caller, clients, bode>>

\* a variant of ReadAck that takes a timeout (an empty reply) for success
ReadAck_lenient ==
    /\ pc = "ack"
    /\ \E in \in Incoming :
        /\ log' = Append(log, ReadEv(in))
        /\ rxq' = in.rest
        /\ IF ~ Decodable(in.bytes)
           THEN Raise("UnicodeDecodeError", <<>>)
           ELSE IF rstrip(in.bytes) # <<>> /\ rstrip(in.bytes) # AckToken
           THEN Raise("UnexpectedReplyError", rstrip(in.bytes))
           ELSE /\ todo' = Tail(todo)
                /\ pc' = "run"
                /\ UNCHANGED <<status, exc, excarg>>
    /\ UNCHANGED <<ser_is_open, calls, api, vals, mode, retval, dev, caller, clients, bode>>

\* __sendwritecmd from readline() on: the reply must be the acknowledgement
ReadAck ==
    /\ pc = "ack"
    /\ \E in \in Incoming :
        /\ log' = Append(log, ReadEv(in))
        /\ rxq' = in.rest
        /\ IF ~ Decodable(in.bytes)
           THEN Raise("UnicodeDecodeError", <<>>)
           ELSE IF rstrip(in.bytes) # AckToken
           THEN Raise("UnexpectedReplyError", rstrip(in.bytes))
           ELSE /\ todo' = Tail(todo)
                /\ pc' = "run"
                /\ UNCHANGED <<status, exc, excarg>>
    /\ UNCHANGED <<ser_is_open, calls, api, vals, mode, retval, dev, caller, clients, bode>>

\* __sendreadcmd: the command is written only on an open port
SendReadCmd ==
    /\ pc = "run"
    /\ todo # <<>>
    /\ Head(todo).op = "read"
    /\ LET i == Head(todo)
       IN  IF ser_is_open
           THEN /\ log' = Append(log, Written(ReadCmd(i.reg, i.n, i.a)))
                /\ rxq' = Outdated(rxq)
                            \o Owed(ReadChar(i.a), i.reg, IF i.a = 0 THEN i.n ELSE 1)
           ELSE UNCHANGED <<log, rxq>>
    /\ pc' = "recv"
    /\ vals' = <<>>
    /\ UNCHANGED <<ser_is_open, calls, api, todo, mode, status, exc, excarg, retval, dev, caller, clients, bode>>

\* one iteration of the loop of __getrespondsandparse; readline() on a port
\* that is not open raises
ReadLine ==
    /\ pc = "recv"
    /\ LET i == Head(todo)
       IN  IF ~ ser_is_open
           THEN /\ Raise("PortNotOpenError", <<>>)
                /\ UNCHANGED <<log, rxq, vals>>
           ELSE \E in \in Incoming :
                  LET r == LineValue(c_expect(i.reg, Len(vals)), in.bytes, i.a)
                  IN  /\ log' = Append(log, ReadEv(in))
                      /\ rxq' = in.rest
                      /\ IF r.exc # ""
                         THEN /\ Raise(r.exc, <<>>)
                              /\ UNCHANGED vals
                         ELSE /\ vals' = Append(vals, r.val)
                              /\ IF Len(vals) + 1 = i.n
                                 THEN todo' = Tail(todo) /\ pc' = "run"
                                 ELSE UNCHANGED <<todo, pc>>
                              /\ UNCHANGED <<status, exc, excarg>>
    /\ UNCHANGED <<ser_is_open, calls, api, mode, retval, dev, caller, clients, bode>>

\* getmode after __getdata returned
DecodeMode ==
    /\ pc = "run"
    /\ todo # <<>>
    /\ Head(todo).op = "decodemode"
    /\ LET d == decodemode(vals[1])
       IN  IF d.exc # ""
           THEN Raise(d.exc, <<>>) /\ UNCHANGED mode
           ELSE /\ mode' = d.mode
                /\ todo' = Tail(todo)
                /\ UNCHANGED <<pc, status, exc, excarg>>
    /\ UNCHANGED <<ser_is_open, rxq, calls, api, log, vals, retval, dev, caller, clients, bode>>

\* the mode check of counter_start, sweep_start, pulse_start, burst_start
RequireMode ==
    /\ pc = "run"
    /\ todo # <<>>
    /\ Head(todo).op = "require"
    /\ IF mode.txt \notin Head(todo).allow
       THEN Raise("WrongMode", <<>>)
       ELSE /\ todo' = Tail(todo)
            /\ UNCHANGED <<pc, status, exc, excarg>>
    /\ UNCHANGED <<ser_is_open, rxq, calls, api, log, vals, mode, retval, dev, caller, clients, bode>>

\* the mode check of setfrequency
RefuseMode ==
    /\ pc = "run"
    /\ todo # <<>>
    /\ Head(todo).op = "refuse"
    /\ IF mode.txt \in Head(todo).allow
       THEN Raise("WrongMode", <<>>)
       ELSE /\ todo' = Tail(todo)
            /\ UNCHANGED <<pc, status, exc, excarg>>
    /\ UNCHANGED <<ser_is_open, rxq, calls, api, log, vals, mode, retval, dev, caller, clients, bode>>

\* an argument check that fails after the mode was read
RaiseLater ==
    /\ pc = "run"
    /\ todo # <<>>
    /\ Head(todo).op = "raise"
    /\ Raise(Head(todo).fn, <<>>)
    /\ UNCHANGED <<ser_is_open, rxq, calls, api, log, vals, mode, retval, dev, caller, clients, bode>>

\* sweep_setchannel: nothing is left to do but return when the channel asked
\* for is the current one
SkipIfMode ==
    /\ pc = "run"
    /\ todo # <<>>
    /\ Head(todo).op = "skipif"
    /\ todo' = IF mode.txt \in Head(todo).allow THEN <<todo[Len(todo)]>> ELSE Tail(todo)
    /\ UNCHANGED <<ser_is_open, rxq, calls, api, log, vals, mode, retval, dev,
                   caller, clients, bode, pc, status, exc, excarg>>

\* x / d of the measurement getters, kept as a fraction
Frac(x, d) == [num |-> x, den |-> d]

RECURSIVE Pow10(_)
Pow10(z) == IF z = 0 THEN 1 ELSE 10 * Pow10(z - 1)

\* a variant of getfrequency_value that takes the register for whole Hz
getfrequency_value_whole(f1, f2) == Frac(f1, Pow10(PyIndex(freqmultiply, f2)))

\* getfrequency: f1/100*__freqmultiply[f2], kept as a fraction
getfrequency_value(f1, f2) == Frac(f1, 100 * Pow10(PyIndex(freqmultiply, f2)))

\* the name getwaveform finds for the register value: in __wave, else in
\* __awave at waveform-101 (either with a negative index counting from the end)
getwaveform_name(waveform) ==
    IF PyIndexOk(wavenames, waveform) THEN PyIndex(wavenames, waveform)
    ELSE PyIndex(awave, waveform - 101)
\* a variant of MeasureScale with the unit of the first value for the second
MeasureScale_same == <<10, 10, 100, 100, 100, 10>>

MeasureScale == <<10, 1000, 100, 100, 100, 10>>

\* the value the call returns
ReturnValue(fn) ==
    CASE fn = "mode" -> [NoRet EXCEPT !.kind = "mode", !.id = mode.id, !.txt = mode.txt]
      [] fn = "measure_getall" ->
            [NoRet EXCEPT !.kind = "list",
                          !.list = [k \in 1..6 |-> Frac(vals[k].v[1], MeasureScale[k])]]
      [] fn = "scaled" ->
            [NoRet EXCEPT !.kind = "frac",
                          !.list = <<Frac(vals[1].v[1] - Head(todo).ival, Head(todo).n)>>]
      [] fn = "data" ->
            [NoRet EXCEPT !.kind = "data", !.scalar = vals[1].scalar, !.list = vals[1].v]
      [] fn = "sound" ->
            [NoRet EXCEPT !.kind = "bool", !.id = PyIndex(<<0, 1>>, vals[1].v[1])]
      [] fn = "language" ->
            [NoRet EXCEPT !.kind = "pair", !.id = vals[1].v[1],
                          !.txt = PyIndex(system_language, vals[1].v[1])]
      [] fn = "sync" -> [NoRet EXCEPT !.kind = "bools", !.list = vals[1].v]
      [] fn = "pulse" ->
            [NoRet EXCEPT !.kind = "frac",
                          !.list = <<Frac(vals[1].v[1],
                                          IF vals[1].v[2] = 0 THEN 1000000000 ELSE 1000000)>>]
      [] fn = "burstmode" ->
            [NoRet EXCEPT !.kind = "pair", !.id = vals[1].v[1],
                          !.txt = PyIndex(burst_mode, vals[1].v[1])]
      [] fn = "waveform" ->
            [NoRet EXCEPT !.kind = "pair", !.id = vals[1].v[1],
                          !.txt = getwaveform_name(vals[1].v[1])]
      [] fn = "frequency" ->
            [NoRet EXCEPT !.kind = "frac",
                          !.list = <<getfrequency_value(vals[1].v[1], vals[1].v[2])>>]
      [] fn = "frequency_m" ->
            [NoRet EXCEPT !.kind = "fracmult", !.id = vals[1].v[2],
                          !.list = <<getfrequency_value(vals[1].v[1], vals[1].v[2])>>]
      [] OTHER -> NoRet

\* the exception the computation of the value to return raises, if any: a
\* list where a number is needed (or a number where a list is) is a TypeError;
\* system_getsound turns an IndexError into UnexpectedValueError,
\* system_getlanguage catches KeyError and so lets the IndexError pass;
\* getfrequency unpacks a pair: a number is a TypeError, a list of another
\* length a ValueError; the pulse getters call UnexptectedValue and
\* burst_getmode raises UnexpectedValue, names that are not defined: NameError
ReturnError(fn) ==
    CASE fn = "measure_getall" ->
            IF \E k \in 1..6 : ~ vals[k].scalar THEN "TypeError" ELSE ""
      [] fn = "scaled" -> IF ~ vals[1].scalar THEN "TypeError" ELSE ""
      [] fn = "sound" ->
            IF ~ vals[1].scalar THEN "TypeError"
            ELSE IF ~ PyIndexOk(<<0, 1>>, vals[1].v[1]) THEN "UnexpectedValueError" ELSE ""
      [] fn = "language" ->
            IF ~ vals[1].scalar THEN "TypeError"
            ELSE IF ~ PyIndexOk(system_language, vals[1].v[1]) THEN "IndexError" ELSE ""
      [] fn = "sync" ->
            IF vals[1].scalar THEN "TypeError"
            ELSE IF Len(vals[1].v) # 5 THEN "UnexpectedValueError"
            ELSE IF \E k \in 1..5 : vals[1].v[k] \notin {0, 1} THEN "UnexpectedValueError"
            ELSE ""
      [] fn = "pulse" ->
            IF vals[1].scalar THEN "TypeError"
            ELSE IF Len(vals[1].v) # 2 THEN "ValueError"
            ELSE IF vals[1].v[2] \notin {0, 1} THEN "NameError"
            ELSE ""
      [] fn = "burstmode" ->
            IF ~ vals[1].scalar THEN "TypeError"
            ELSE IF ~ PyIndexOk(burst_mode, vals[1].v[1]) THEN "NameError" ELSE ""
      [] fn = "waveform" ->
            IF ~ vals[1].scalar THEN "TypeError"
            ELSE IF PyIndexOk(wavenames, vals[1].v[1]) \/ PyIndexOk(awave, vals[1].v[1] - 101)
            THEN ""
            ELSE "UnexpectedValueError"
      [] fn \in {"frequency", "frequency_m"} ->
            IF vals[1].scalar THEN "TypeError"
            ELSE IF Len(vals[1].v) # 2 THEN "ValueError"
            ELSE IF ~ PyIndexOk(freqmultiply, vals[1].v[2]) THEN "UnexpectedValueError"
            ELSE ""
      [] OTHER -> ""

\* a variant of SetModeRead that enters the mode WAVE_CH1 whatever was read
SetModeRead_first ==
    /\ pc = "run"
    /\ todo # <<>>
    /\ Head(todo).op = "setmoderead"
    /\ todo' = setmode_body(0, FALSE) \o Tail(todo)
    /\ UNCHANGED <<pc, status, exc, excarg>>
    /\ UNCHANGED <<ser_is_open, rxq, calls, api, log, vals, mode, retval, dev, caller, clients, bode>>
\* system_setlanguage: setmode(mode) with the mode just read
SetModeRead ==
    /\ pc = "run"
    /\ todo # <<>>
    /\ Head(todo).op = "setmoderead"
    /\ LET chk == setmode_check("int", mode.id, <<>>)
       IN  IF chk.exc # ""
           THEN Raise(chk.exc, <<>>)
           ELSE /\ todo' = setmode_body(chk.modeid, FALSE) \o Tail(todo)
                /\ UNCHANGED <<pc, status, exc, excarg>>
    /\ UNCHANGED <<ser_is_open, rxq, calls, api, log, vals, mode, retval, dev, caller, clients, bode>>

\* the call returns to its caller
Return ==
    /\ pc = "run"
    /\ todo # <<>>
    /\ Head(todo).op = "return"
    /\ IF ReturnError(Head(todo).fn) # ""
       THEN Raise(ReturnError(Head(todo).fn), <<>>) /\ UNCHANGED retval
       ELSE /\ retval' = ReturnValue(Head(todo).fn)
            /\ status' = "ok"
            /\ pc' = "done"
            /\ todo' = <<>>
            /\ UNCHANGED <<exc, excarg>>
    /\ UNCHANGED <<ser_is_open, rxq, calls, api, log, vals, mode, dev, caller, clients, bode>>

Next ==
    \/ getmode
    \/ setmode
    \/ \E name \in StopOps : stop(name)
    \/ counter_start
    \/ sweep_start
    \/ pulse_start
    \/ burst_start
    \/ measure_getall
    \/ arb_getwave
    \/ arb_setwave
    \/ SendWriteCmd
    \/ ReadAck
    \/ SendReadCmd
    \/ ReadLine
    \/ DecodeMode
    \/ RequireMode
    \/ Return
    \/ Resume

Spec == Init /\ [][Next]_vars

\* the calls that depend on the channel, on any instrument
NextChannel ==
    \/ sweep_setchannel
    \/ setfrequency
    \/ SendWriteCmd
    \/ ReadAck
    \/ SendReadCmd
    \/ ReadLine
    \/ DecodeMode
    \/ RequireMode
    \/ RefuseMode
    \/ RaiseLater
    \/ SkipIfMode
    \/ Return
    \/ Resume

SpecChannel == Init /\ [][NextChannel]_vars

\* an instrument that is connected and keeps what is written to it
InitKeeping ==
    /\ ser_is_open = TRUE
    /\ rxq = <<>>
    /\ calls = 0
    /\ pc = "idle"
    /\ api = NoApi
    /\ todo = <<>>
    /\ log = <<>>
    /\ vals = <<>>
    /\ mode = NoMode
    /\ status = "none"
    /\ exc = ""
    /\ excarg = <<>>
    /\ retval = NoRet
    /\ dev = [stores |-> TRUE, mem |-> {}]
    /\ caller = {}
    /\ clients = NoClients
    /\ bode = NoBode

\* the setters and getters of the scaled registers, on such an instrument
NextScale ==
    \/ setamplitude
    \/ setoffset
    \/ setdutycycle
    \/ setphase
    \/ getamplitude
    \/ getoffset
    \/ getdutycycle
    \/ getphase
    \/ SendWriteCmd
    \/ ReadAck
    \/ SendReadCmd
    \/ ReadLine
    \/ Return
    \/ Resume

SpecScale == InitKeeping /\ [][NextScale]_vars

\* the system settings, on any instrument
NextSystem ==
    \/ system_getsound
    \/ system_getbrightness
    \/ system_getlanguage
    \/ system_getsync
    \/ system_getarbmaxnum
    \/ system_setsound
    \/ system_setbrightness
    \/ system_setlanguage
    \/ system_setsync
    \/ system_setarbmaxnum
    \/ SendWriteCmd
    \/ ReadAck
    \/ SendReadCmd
    \/ ReadLine
    \/ DecodeMode
    \/ SetModeRead
    \/ Return
    \/ Resume

SpecSystem == Init /\ [][NextSystem]_vars

\* what a connected instrument may hold in its six measurement registers
Measurements == { <<12345, 1234567, 100, 200, 300, 333>>, <<0, 7, 1, 0, 10, 1000>> }

\* an instrument whose measurement registers hold one of these and keep it
InitMeasure ==
    /\ ser_is_open = TRUE
    /\ rxq = <<>>
    /\ calls = 0
    /\ pc = "idle"
    /\ api = NoApi
    /\ todo = <<>>
    /\ log = <<>>
    /\ vals = <<>>
    /\ mode = NoMode
    /\ status = "none"
    /\ exc = ""
    /\ excarg = <<>>
    /\ retval = NoRet
    /\ \E m \in Measurements :
           dev = [stores |-> TRUE,
                  mem |-> {[a |-> 0, reg |-> MEASURE_DATA_FREQ_LOWRES + k - 1,
                            val |-> str(m[k])] : k \in 1..6}]
    /\ caller = {}
    /\ clients = NoClients
    /\ bode = NoBode

\* the measurement getters, on such an instrument
NextMeasure ==
    \/ measure_getfreq_f
    \/ measure_getfreq_p
    \/ measure_getpw1
    \/ measure_getpw0
    \/ measure_getperiod
    \/ measure_getdutycycle
    \/ measure_getall
    \/ SendReadCmd
    \/ ReadLine
    \/ Return
    \/ Resume

SpecMeasure == InitMeasure /\ [][NextMeasure]_vars

\* a session at the output settings makes up to SessionCalls calls
SessionCalls == 4

\* the values of the mode register that stand for a mode other than a sweep
NonSweepModes == {0, 64}

\* an instrument in a mode other than a sweep that keeps what is written to it
InitOutput ==
    /\ ser_is_open = TRUE
    /\ rxq = <<>>
    /\ calls = MaxCalls - SessionCalls
    /\ pc = "idle"
    /\ api = NoApi
    /\ todo = <<>>
    /\ log = <<>>
    /\ vals = <<>>
    /\ mode = NoMode
    /\ status = "none"
    /\ exc = ""
    /\ excarg = <<>>
    /\ retval = NoRet
    /\ \E m \in NonSweepModes :
           dev = [stores |-> TRUE, mem |-> {[a |-> 0, reg |-> MODE, val |-> str(m)]}]
    /\ caller = {}
    /\ clients = NoClients
    /\ bode = NoBode

\* waveform, frequency and amplitude of channel 1 (and of the channel 0 there
\* is not), on such an instrument
NextOutput ==
    \/ (setwaveform /\ api'.chan # 2)
    \/ (setfrequency_low /\ api'.chan < 2)
    \/ (setamplitude /\ api'.chan # 2)
    \/ (getwaveform /\ api'.chan # 2)
    \/ (getfrequency /\ api'.chan # 2)
    \/ (getamplitude /\ api'.chan # 2)
    \/ SendWriteCmd
    \/ ReadAck
    \/ SendReadCmd
    \/ ReadLine
    \/ DecodeMode
    \/ RefuseMode
    \/ RaiseLater
    \/ Return
    \/ Resume

SpecOutput == InitOutput /\ [][NextOutput]_vars

\* operations at registers and slots below and above 10, reads of several
\* registers and reads at the register above, on any instrument
NextRegisters ==
    \/ getinfo_devicetype
    \/ getinfo_serialnumber
    \/ getmode
    \/ measure_getall
    \/ system_getlanguage
    \/ system_setsound
    \/ setwaveform
    \/ arb_getwave
    \/ arb_setwave
    \/ SendWriteCmd
    \/ ReadAck
    \/ SendReadCmd
    \/ ReadLine
    \/ DecodeMode
    \/ Return
    \/ Resume

SpecRegisters == Init /\ [][NextRegisters]_vars

\* the number of bursts and the profiles, on any instrument
NextProfile ==
    \/ burst_setnumberofbursts
    \/ system_saveprofile
    \/ system_loadprofile
    \/ system_clearprofile
    \/ SendWriteCmd
    \/ ReadAck
    \/ Return
    \/ Resume

SpecProfile == Init /\ [][NextProfile]_vars

\* the setters that take a name, on any instrument
NextNames ==
    \/ setwaveform
    \/ setmode
    \/ measure_setcoupling
    \/ measure_setmode
    \/ sweep_setdirection
    \/ sweep_setmode
    \/ burst_setmode
    \/ system_setlanguage
    \/ SendWriteCmd
    \/ ReadAck
    \/ SendReadCmd
    \/ ReadLine
    \/ DecodeMode
    \/ SetModeRead
    \/ Return
    \/ Resume

SpecNames == Init /\ [][NextNames]_vars

\* the operations on a setting of a channel, on any instrument
NextPerChannel ==
    \/ setwaveform
    \/ setfrequency
    \/ setamplitude
    \/ setoffset
    \/ setdutycycle
    \/ getwaveform
    \/ getfrequency
    \/ getfrequency_m
    \/ getamplitude
    \/ getoffset
    \/ getdutycycle
    \/ SendWriteCmd
    \/ ReadAck
    \/ SendReadCmd
    \/ ReadLine
    \/ DecodeMode
    \/ RefuseMode
    \/ RaiseLater
    \/ Return
    \/ Resume

SpecPerChannel == Init /\ [][NextPerChannel]_vars

\* the getters of enumerated values, on any instrument
NextEnum ==
    \/ pulse_getpulsewidth
    \/ pulse_getperiod
    \/ burst_getmode
    \/ system_getlanguage
    \/ SendReadCmd
    \/ ReadLine
    \/ Return
    \/ Resume

SpecEnum == Init /\ [][NextEnum]_vars

\* ---- several objects of the class ----

MaxClients == 2

Ports == {"ttyUSB0", "ttyUSB1"}

\* everything but clients
onevars == <<ser_is_open, rxq, calls, pc, api, todo, log, vals, mode, status, exc,
             excarg, retval, dev, caller, bode>>

\* jds6600(fname): serial.Serial(port=fname, ...) opens a new connection, and
\* the assignment "jds6600.ser = ..." binds the attribute of the class to it
Construct ==
    /\ Len(clients.own) < MaxClients
    /\ \E fname \in Ports :
        LET c == Len(clients.port) + 1
        IN  clients' = [clients EXCEPT !.ser = c,
                                        !.port = Append(@, fname),
                                        !.own = Append(@, c)]
    /\ UNCHANGED onevars

\* self.ser of an object: no object has an attribute ser of its own, so the
\* lookup ends at the attribute of the class
self_ser(i) == clients.ser

\* self.ser.write(...) in object i
ClientWrite ==
    /\ \E i \in 1..Len(clients.own) :
        clients' = [clients EXCEPT !.used = @ \cup {[client |-> i, conn |-> self_ser(i), ev |-> "w"]}]
    /\ UNCHANGED onevars

\* self.ser.readline() in object i
ClientRead ==
    /\ \E i \in 1..Len(clients.own) :
        clients' = [clients EXCEPT !.used = @ \cup {[client |-> i, conn |-> self_ser(i), ev |-> "r"]}]
    /\ UNCHANGED onevars

InitClients == Init /\ ~ ser_is_open

NextClients ==
    \/ Construct
    \/ ClientWrite
    \/ ClientRead

SpecClients == InitClients /\ [][NextClients]_vars

\* the waveform operations, on such an instrument
NextArb ==
    \/ arb_setwave
    \/ arb_getwave
    \/ SendWriteCmd
    \/ ReadAck
    \/ SendReadCmd
    \/ ReadLine
    \/ Return
    \/ Resume

SpecArb == InitKeeping /\ [][NextArb]_vars

\* ---------------------------------------------------------- the Bode sweep

\* the highest number of frequencies probed (COUNT)
MaxSteps == 4

AWG_CHANNEL == 1

\* np.linspace(MIN_FREQ, MAX_FREQ, num=STEP_COUNT) for MIN_FREQ = 1000 and a
\* step of 1000 Hz: the frequencies probed, in whole Hz
linspace(num) == [i \in 1..num |-> 1000 * i]

\* what a measurement of the oscilloscope gives: a number, or None when the
\* oscilloscope has no value; nan is what the file gets for no amplitude
None == [k |-> "None", v |-> 0]

Float(v) == [k |-> "float", v |-> v]

NaN == [k |-> "nan", v |-> 0]

\* the amplitudes (V) and the phases (degrees) the oscilloscope may measure
Vpp == {None, Float(0), Float(5)}

Rphase == {None, Float(90)}

\* Python's truth value of a measurement: None and 0.0 are false
Truthy(x) == x.k = "float" /\ x.v # 0

\* the script after lines 1-98: the generator is connected (its port is open),
\* the frequencies are computed, no sample is taken yet
InitBode ==
    /\ ser_is_open = TRUE
    /\ rxq = <<>>
    /\ calls = 0
    /\ pc = "idle"
    /\ api = NoApi
    /\ todo = <<>>
    /\ log = <<>>
    /\ vals = <<>>
    /\ mode = NoMode
    /\ status = "none"
    /\ exc = ""
    /\ excarg = <<>>
    /\ retval = NoRet
    /\ dev = AnyDevice
    /\ caller = {}
    /\ clients = NoClients
    /\ \E num \in 1..MaxSteps, phase \in BOOLEAN, file \in BOOLEAN :
           bode = [at |-> "start", freqs |-> linspace(num), PHASE |-> phase,
                   file |-> file, volts |-> <<>>, phases |-> <<>>, rows |-> <<>>,
                   closed |-> FALSE]

\* line 102: awg.setfrequency(AWG_CHANNEL, float(freqs[0]))
bode_first ==
    /\ bode.at = "start"
    /\ pc = "idle"
    /\ setfrequency_call(AWG_CHANNEL, bode.freqs[1], 0)

\* line 103: the call has returned, time.sleep(0.05)
bode_sleep ==
    /\ bode.at = "start"
    /\ pc = "done"
    /\ status = "ok"
    /\ bode' = [bode EXCEPT !.at = "slept"]
    /\ UNCHANGED <<ser_is_open, rxq, calls, pc, api, todo, log, vals, mode, status, exc,
                   excarg, retval, dev, caller, clients>>

\* line 105: for freq in freqs
bode_for ==
    /\ bode.at \in {"slept", "measured"}
    /\ pc = "idle"
    /\ bode' = [bode EXCEPT !.at = IF Len(bode.volts) < Len(bode.freqs)
                                   THEN "set" ELSE "output"]
    /\ UNCHANGED <<ser_is_open, rxq, calls, pc, api, todo, log, vals, mode, status, exc,
                   excarg, retval, dev, caller, clients>>

\* line 106: awg.setfrequency(AWG_CHANNEL, float(freq))
bode_setfrequency ==
    /\ bode.at = "set"
    /\ pc = "idle"
    /\ setfrequency_call(AWG_CHANNEL, bode.freqs[Len(bode.volts) + 1], 0)

\* lines 107-128: the call has returned; the amplitude is measured and
\* appended, and with --phase the phase, negated unless it is None or 0
bode_measure ==
    /\ bode.at = "set"
    /\ pc = "done"
    /\ status = "ok"
    /\ \E volt \in Vpp, phase \in Rphase :
           bode' = [bode EXCEPT !.at = "measured",
                                !.volts = Append(@, volt),
                                !.phases = IF bode.PHASE
                                           THEN Append(@, IF Truthy(phase)
                                                          THEN Float(- phase.v) ELSE phase)
                                           ELSE @]
    /\ UNCHANGED <<ser_is_open, rxq, calls, pc, api, todo, log, vals, mode, status, exc,
                   excarg, retval, dev, caller, clients>>

\* an exception of setfrequency is not caught: the script ends
bode_raise ==
    /\ bode.at \in {"start", "set"}
    /\ pc = "done"
    /\ status = "err"
    /\ bode' = [bode EXCEPT !.at = "failed"]
    /\ UNCHANGED <<ser_is_open, rxq, calls, pc, api, todo, log, vals, mode, status, exc,
                   excarg, retval, dev, caller, clients>>

\* the row written for freqs[n], n counting from 0
bode_row(n) ==
    [freq |-> bode.freqs[n + 1],
     volt |-> IF Truthy(bode.volts[n + 1]) THEN bode.volts[n + 1] ELSE NaN,
     phase |-> IF bode.PHASE THEN bode.phases[n + 1] ELSE None]

\* range(1, len(freqs) - 1)
bode_range == 1..(Len(bode.freqs) - 2)

\* the rows "%f;%f;%f" cannot format: those with a phase that is None
bode_unformattable == {n \in bode_range : bode.PHASE /\ bode.phases[n + 1] = None}

\* lines 130-153: with --output, the heading and a row for every n of
\* range(1, len(freqs) - 1), then close(); a row that cannot be formatted
\* raises TypeError after the rows before it
bode_output ==
    /\ bode.at = "output"
    /\ IF ~ bode.file
       THEN bode' = [bode EXCEPT !.at = "end"]
       ELSE LET upto == IF bode_unformattable = {} THEN Len(bode.freqs) - 2
                        ELSE Min(bode_unformattable) - 1
                written == [n \in 1..(IF upto < 0 THEN 0 ELSE upto) |-> bode_row(n)]
            IN  bode' = [bode EXCEPT !.rows = written,
                                     !.closed = bode_unformattable = {},
                                     !.at = IF bode_unformattable = {}
                                            THEN "end" ELSE "failed"]
    /\ UNCHANGED <<ser_is_open, rxq, calls, pc, api, todo, log, vals, mode, status, exc,
                   excarg, retval, dev, caller, clients>>

\* the script goes on after a call
bode_resume ==
    /\ bode.at \in {"slept", "measured"}
    /\ Resume

NextBode ==
    \/ bode_first
    \/ bode_sleep
    \/ bode_for
    \/ bode_setfrequency
    \/ bode_measure
    \/ bode_raise
    \/ bode_output
    \/ bode_resume
    \/ SendWriteCmd
    \/ ReadAck
    \/ SendReadCmd
    \/ ReadLine
    \/ DecodeMode
    \/ RefuseMode
    \/ Return

SpecBode == InitBode /\ [][NextBode]_vars
\* ------------------------------------------------- the serial I/O of a call

\* a command line was written
IsCmd(e) == e.ev = "w"

\* a line was read (an empty one on timeout)
IsRead(e) == e.ev = "r"

\* the command written is a register write or an arbitrary-waveform write
IsWriteCmd(e) == IsCmd(e) /\ e.data[2] \in {"w", "a"}

\* the command written is a register read or an arbitrary-waveform read
IsReadCmd(e) == IsCmd(e) /\ e.data[2] \in {"r", "b"}

\* the register (or slot) a command line names
CmdReg(e) == 10 * DigitVal(e.data[3]) + DigitVal(e.data[4])

\* the line read, as text without its trailing whitespace
Stripped(e) == rstrip(e.data)

\* the line read is the acknowledgement
IsAck(e) == IsRead(e) /\ Decodable(e.data) /\ Stripped(e) = <<":", "o", "k">>

\* the part of a line left of its first '=' (the whole line if it has none)
LeftOfEq(s) ==
    IF \E i \in 1..Len(s) : s[i] = "="
    THEN SubSeq(s, 1, Min({i \in 1..Len(s) : s[i] = "="}) - 1)
    ELSE s

\* the position in the log of the last command written before position k
LastCmd(k) == CHOOSE j \in 1..(k - 1) : IsCmd(log[j]) /\ \A m \in (j + 1)..(k - 1) : ~ IsCmd(log[m])

\* the event at k is a reply line read for a read command
IsReadReply(k) ==
    /\ IsRead(log[k])
    /\ \E j \in 1..(k - 1) : IsCmd(log[j])
    /\ IsReadCmd(log[LastCmd(k)])

\* the echo a reply line read at k has to carry: the op-char of the command and
\* the register of the command plus the number of lines read since
ExpectedEcho(k) ==
    <<":", log[LastCmd(k)].data[2]>> \o reg2txt(CmdReg(log[LastCmd(k)]) + (k - LastCmd(k) - 1))

\* the call failed on the last line it read
FailedOnLast(k, e) == k = Len(log) /\ status = "err" /\ exc = e

\* ------------------------------------------------------------------ claims

\* C1: in every write operation (register write, arbitrary-waveform write) the
\* command written is followed by the read of exactly one reply line, and if
\* that line, without its trailing whitespace, is not ':ok' (an empty line on
\* timeout included) the operation ends there with UnexpectedReplyError
\* carrying the text received.
C1_WriteAcknowledged ==
    /\ (pc = "ack") = (log # <<>> /\ IsWriteCmd(log[Len(log)]))
    /\ \A k \in 1..(Len(log) - 1) : IsWriteCmd(log[k]) =>
        /\ IsRead(log[k + 1])
        /\ k + 2 <= Len(log) => IsCmd(log[k + 2])
        /\ Decodable(log[k + 1].data) /\ Stripped(log[k + 1]) # <<":", "o", "k">> =>
             /\ FailedOnLast(k + 1, "UnexpectedReplyError")
             /\ excarg = Stripped(log[k + 1])

\* an arbitrary-waveform write was answered ':err'
C1_Witness ==
    /\ status = "err"
    /\ exc = "UnexpectedReplyError"
    /\ api.name = "arb_setwave"
    /\ Len(log) = 2
    /\ log[1].data[2] = "a"
    /\ excarg = <<":", "e", "r", "r">>

\* C2: a setter returns normally only if its write command was written and the
\* ':ok' line was read after it, the port not open included.
C2_ReturnsOnlyAcknowledged ==
    status = "ok" /\ api.name \in ({"setmode", "arb_setwave"} \cup StopOps) =>
        \E k \in 1..(Len(log) - 1) : IsWriteCmd(log[k]) /\ IsAck(log[k + 1])

\* C3: a reply line read for a read command whose part left of '=' is not
\* ':' + the op-char ('r' for a register, 'b' for a waveform) + the two-digit
\* register expected ends the call with FormatError, and nothing is returned.
C3_EchoEnforced ==
    \A k \in 1..Len(log) :
        IsReadReply(k) /\ Decodable(log[k].data)
            /\ LeftOfEq(Stripped(log[k])) # ExpectedEcho(k) =>
                /\ FailedOnLast(k, "FormatError")
                /\ retval = NoRet

\* a waveform read was answered with the echo of a register read
C3_Witness ==
    /\ api.name = "arb_getwave"
    /\ status = "err"
    /\ exc = "FormatError"
    /\ Len(log) = 2
    /\ LeftOfEq(Stripped(log[2])) = <<":", "r">> \o reg2txt(api.iarg)

\* the calls that read registers, with the first register and the number read
RegReadOps == {"getmode", "measure_getall", "counter_start", "sweep_start",
               "pulse_start", "burst_start"}

FirstReg(name) == IF name = "measure_getall" THEN 81 ELSE 33

NumRegs(name) == IF name = "measure_getall" THEN 6 ELSE 1

\* C4: a read of N registers from R on writes one command, ':rRR=<N-1>.',
\* before any line is read, and reads at most N lines; line i (from 0) is
\* accepted only if it echoes register R+i; a line not accepted ends the call
\* with an error, nothing is returned and no further line is read; the call
\* returns only after N lines.
C4_MultiRegisterRead ==
    api.name \in RegReadOps =>
        LET R == FirstReg(api.name)
            N == NumRegs(api.name)
            replies == {k \in 1..Len(log) : IsReadReply(k)}
        IN  /\ {k \in 1..Len(log) : IsReadCmd(log[k])} \subseteq {1}
            /\ log # <<>> =>
                 log[1].data = <<":", "r">> \o reg2txt(R) \o <<"=">> \o str(N - 1) \o <<".", "\n">>
            /\ replies \subseteq 2..(N + 1)
            /\ \A k \in replies :
                 IF k - 1 <= Len(vals)
                 THEN /\ Decodable(log[k].data)
                      /\ LeftOfEq(Stripped(log[k])) = <<":", "r">> \o reg2txt(R + k - 2)
                 ELSE /\ k = Len(log)
                      /\ status = "err"
                      /\ retval = NoRet
            /\ status = "ok" => replies = 2..(N + 1)

\* the third line of a read of six registers echoed another register than 83
C4_Witness ==
    /\ api.name = "measure_getall"
    /\ status = "err"
    /\ exc = "FormatError"
    /\ Len(log) = 4
    /\ Len(vals) = 2
    /\ LeftOfEq(Stripped(log[4])) = <<":", "r", "8", "2">>

\* C5: a command is written only when no reply to an earlier command is still
\* to come, and no line read was sent in reply to an earlier command.
C5_OneInFlight ==
    \A k \in 1..Len(log) :
        /\ IsCmd(log[k]) => log[k].pend = 0
        /\ IsRead(log[k]) => ~ log[k].stale

\* the command lines setmode writes
StopLine == <<":", "w", "3", "2", "=", "0", ",", "0", ",", "0", ",", "0", ".", "\n">>

ModeLine(id) == <<":", "w", "3", "3", "=">> \o str(id) \o <<".", "\n">>

ResetLine == <<":", "w", "3", "9", "=", "0", ".", "\n">>

\* a register write to reg
IsWriteTo(e, reg) == IsCmd(e) /\ e.data[2] = "w" /\ CmdReg(e) = reg

IsBurstTarget ==
    \/ api.targ = "int" /\ api.iarg = 9
    \/ api.targ = "str" /\ upper(api.sarg) = BURST

\* C6: in setmode, with nostop=False the mode register is written only after
\* the STOP pattern was written to the action register and acknowledged, and
\* with nostop=True no action is written; the counter reset (register 39 = 0)
\* is written only for the target BURST, right after the acknowledged mode
\* write, and then always; nothing else is written.
C6_SetmodeOrder ==
    api.name = "setmode" =>
        /\ \A k \in 1..Len(log) : IsCmd(log[k]) =>
             \/ /\ log[k].data = StopLine
                /\ ~ api.nostop
                /\ k = 1
             \/ /\ IsWriteTo(log[k], 33)
                /\ api.targ = "int" => log[k].data = ModeLine(api.iarg)
                /\ IF api.nostop THEN k = 1
                   ELSE k = 3 /\ log[1].data = StopLine /\ IsAck(log[2])
             \/ /\ log[k].data = ResetLine
                /\ IsBurstTarget
                /\ k >= 3
                /\ IsWriteTo(log[k - 2], 33)
                /\ IsAck(log[k - 1])
        /\ \A k \in 1..(Len(log) - 1) :
             IsWriteTo(log[k], 33) /\ IsAck(log[k + 1]) /\ IsBurstTarget /\ pc = "done" =>
                 k + 2 <= Len(log) /\ log[k + 2].data = ResetLine

\* setmode('burst') stopped the actions, wrote the mode and reset the counter
C6_Witness ==
    /\ api.name = "setmode"
    /\ api.targ = "str"
    /\ IsBurstTarget
    /\ ~ api.nostop
    /\ status = "ok"
    /\ Len(log) = 6
    /\ log[5].data = ResetLine

\* C7: getmode never returns the mode id 3; setmode(3) and setmode('') fail with
\* ValueError without writing anything; neither 3 nor -1 is ever written to
\* the mode register.
C7_NoModeThree ==
    /\ status = "ok" /\ api.name = "getmode" => retval.kind = "mode" /\ retval.id # 3
    /\ mode.id # 3
    /\ /\ api.name = "setmode"
       /\ \/ api.targ = "int" /\ api.iarg = 3
          \/ api.targ = "str" /\ api.sarg = <<>>
       => status = "err" /\ exc = "ValueError" /\ log = <<>>
    /\ \A k \in 1..Len(log) :
         IsWriteTo(log[k], 33) => log[k].data \notin {ModeLine(3), ModeLine(-1)}

\* setmode(3) has failed
C7_Witness ==
    /\ api.name = "setmode"
    /\ api.targ = "int"
    /\ api.iarg = 3
    /\ pc = "done"
    /\ exc = "ValueError"

StartOps == {"counter_start", "sweep_start", "pulse_start", "burst_start"}

\* the pattern a start operation writes and the modes it is for
PatternOf(name) ==
    CASE name = "counter_start" -> <<"1", ",", "0", ",", "0", ",", "0">>
      [] name = "sweep_start" -> <<"0", ",", "1", ",", "0", ",", "0">>
      [] name = "pulse_start" -> <<"1", ",", "0", ",", "1", ",", "1">>
      [] name = "burst_start" -> <<"1", ",", "0", ",", "0", ",", "1">>

MatchingModes(name) ==
    CASE name = "counter_start" -> {COUNTER}
      [] name = "sweep_start" -> {SWEEP_CH1, SWEEP_CH2}
      [] name = "pulse_start" -> {PULSE}
      [] name = "burst_start" -> {BURST}

ModeQuery == <<":", "r", "3", "3", "=", "0", ".", "\n">>

\* the start operation has the mode and the mode is not one of its own
InWrongMode == api.name \in StartOps /\ mode # NoMode /\ mode.txt \notin MatchingModes(api.name)

\* C8: a pattern other than STOP is written to the action register only by a
\* start operation, its own pattern, after the mode query of the same call
\* returned a matching mode; in any other mode the start operation fails with
\* WrongMode and does not write the action register.
C8_ActionNeedsMode ==
    /\ \A k \in 1..Len(log) :
         IsWriteTo(log[k], 32) /\ log[k].data # StopLine =>
             /\ api.name \in StartOps
             /\ log[k].data = <<":", "w", "3", "2", "=">> \o PatternOf(api.name) \o <<".", "\n">>
             /\ mode.txt \in MatchingModes(api.name)
             /\ k = 3
             /\ log[1].data = ModeQuery
             /\ IsReadReply(2)
    /\ InWrongMode =>
         /\ \A k \in 1..Len(log) : ~ IsWriteTo(log[k], 32)
         /\ pc = "done" => status = "err" /\ exc = "WrongMode"

\* pulse_start found the device in PULSE mode and started the pulse
C8_Witness ==
    /\ api.name = "pulse_start"
    /\ mode.txt = PULSE
    /\ status = "ok"
    /\ Len(log) = 4
    /\ IsWriteTo(log[3], 32)

\* C9 as stated: a start operation in a mode that is not its own raises
\* WrongMode and writes nothing at all to the serial line during the call.
C9_NothingWritten ==
    InWrongMode /\ pc = "done" =>
        /\ status = "err"
        /\ exc = "WrongMode"
        /\ \A k \in 1..Len(log) : ~ IsCmd(log[k])

\* C9: a start operation in a mode that is not its own (sweep_start in WAVE_CH1)
\* raises WrongMode and sends no write command: the one line written during
\* the call is the mode query ':r33=0.'.
C9_OnlyModeQueryWritten ==
    InWrongMode /\ pc = "done" =>
        /\ status = "err"
        /\ exc = "WrongMode"
        /\ {k \in 1..Len(log) : IsCmd(log[k])} = {1}
        /\ log[1].data = ModeQuery

\* sweep_start found the device in WAVE_CH1 mode
C9_Witness ==
    /\ api.name = "sweep_start"
    /\ mode.txt = WAVE_CH1
    /\ pc = "done"
    /\ exc = "WrongMode"

\* C10: a stop operation makes no mode query and never fails with WrongMode;
\* it writes the STOP pattern '0,0,0,0' to the action register 32 and returns
\* only after the acknowledgement.
C10_StopAlwaysWritten ==
    api.name \in StopOps =>
        /\ \A k \in 1..Len(log) : ~ IsReadCmd(log[k])
        /\ exc # "WrongMode"
        /\ pc = "done" => Len(log) = 2 /\ log[1].data = StopLine /\ IsRead(log[2])
        /\ status = "ok" => IsAck(log[2])

\* the call has the mode, and it is no sweep mode
NotSweeping == mode # NoMode /\ mode.txt \notin {SWEEP_CH1, SWEEP_CH2}

\* the call has the mode, and it is the sweep mode of the channel it names
SweepingSame ==
    \/ api.chan = 1 /\ mode.txt = SWEEP_CH1
    \/ api.chan = 2 /\ mode.txt = SWEEP_CH2

\* the call has the mode, and it is the sweep mode of the other channel
SweepingOther ==
    \/ api.chan = 1 /\ mode.txt = SWEEP_CH2
    \/ api.chan = 2 /\ mode.txt = SWEEP_CH1

NoWriteCmd == \A k \in 1..Len(log) : ~ IsWriteCmd(log[k])

\* C11: sweep_setchannel(c), c in {1, 2}: in a mode that is no sweep mode it
\* fails with WrongMode and sends no write; in the sweep mode of channel c it
\* sends no write and returns; in the sweep mode of the other channel it
\* writes the mode register with the sweep mode of c (6 or 7), and it never
\* writes the STOP pattern or the counter reset.
C11_SweepChannelSwitch ==
    api.name = "sweep_setchannel" /\ api.chan \in {1, 2} =>
        /\ \A k \in 1..Len(log) : IsCmd(log[k]) =>
             \/ k = 1 /\ log[k].data = ModeQuery
             \/ /\ k = 3
                /\ log[k].data = ModeLine(5 + api.chan)
                /\ SweepingOther
        /\ NotSweeping =>
             /\ NoWriteCmd
             /\ pc = "done" => status = "err" /\ exc = "WrongMode"
        /\ SweepingSame =>
             /\ NoWriteCmd
             /\ pc = "done" => status = "ok"
        /\ SweepingOther /\ status = "ok" =>
             Len(log) = 4 /\ log[3].data = ModeLine(5 + api.chan) /\ IsAck(log[4])

\* sweep_setchannel(1) found SWEEP_CH2 and wrote the mode SWEEP_CH1
C11_Witness ==
    /\ api.name = "sweep_setchannel"
    /\ api.chan = 1
    /\ mode.txt = SWEEP_CH2
    /\ status = "ok"
    /\ Len(log) = 4
    /\ log[3].data = <<":", "w", "3", "3", "=", "6", ".", "\n">>

\* C12: setfrequency(c, ...) writes only after its mode query was answered;
\* in the sweep mode of channel c it fails with WrongMode; the frequency
\* register of a channel (23, 24) is never written by a call whose mode query
\* returned the sweep mode of that channel.
C12_FrequencyGuard ==
    /\ api.name = "setfrequency" =>
        /\ \A k \in 1..Len(log) : IsWriteCmd(log[k]) =>
             /\ k = 3
             /\ log[1].data = ModeQuery
             /\ IsReadReply(2)
             /\ mode # NoMode
             /\ IsWriteTo(log[k], 22 + api.chan)
        /\ SweepingSame /\ pc = "done" => status = "err" /\ exc = "WrongMode"
    /\ \A k \in 1..Len(log) :
        /\ IsWriteTo(log[k], 23) => mode.txt # SWEEP_CH1
        /\ IsWriteTo(log[k], 24) => mode.txt # SWEEP_CH2

\* setfrequency(2, ...) found the device in SWEEP_CH2
C12_Witness ==
    /\ api.name = "setfrequency"
    /\ api.chan = 2
    /\ mode.txt = SWEEP_CH2
    /\ pc = "done"
    /\ exc = "WrongMode"
    /\ Len(log) = 2

\* the highest frequency setfrequency takes with a multiplier
FreqCap(multiplier) ==
    IF multiplier < 3 THEN 60000000 ELSE IF multiplier = 3 THEN 80000 ELSE 80

\* the digits written for the highest frequency: Hz / 100 and mHz / 100 000
CapDigits(multiplier) ==
    IF multiplier < 3 THEN <<"6", "0", "0", "0", "0", "0", "0", "0", "0", "0">>
    ELSE <<"8", "0", "0", "0", "0", "0", "0", "0", "0", "0">>

\* setfrequency with valid channel, frequency and multiplier got past the mode check
PastModeCheck ==
    /\ api.name = "setfrequency"
    /\ api.chan \in {1, 2}
    /\ api.iarg >= 0
    /\ api.mult \in 0..4
    /\ mode # NoMode
    /\ ~ SweepingSame

\* C13: setfrequency takes a frequency up to the cap of the multiplier (60 MHz
\* for 0, 1, 2; 80 kHz for 3; 80 Hz for 4) and writes it unchanged; above the
\* cap it fails with ValueError and sends no frequency write.
C13_FrequencyCap ==
    PastModeCheck =>
        IF api.iarg > FreqCap(api.mult)
        THEN /\ NoWriteCmd
             /\ pc = "done" => status = "err" /\ exc = "ValueError"
        ELSE pc = "done" =>
             /\ Len(log) = 4
             /\ IsWriteTo(log[3], 22 + api.chan)
             /\ api.iarg = FreqCap(api.mult) =>
                  SubSeq(log[3].data, 6, Len(log[3].data)) =
                      CapDigits(api.mult) \o <<",">> \o str(api.mult) \o <<".", "\n">>
             /\ status = "ok" => IsAck(log[4])

\* 60 000 000 Hz was written with the multiplier 0
C13_Witness ==
    /\ api.name = "setfrequency"
    /\ api.chan = 1
    /\ api.iarg = 60000000
    /\ api.mult = 0
    /\ status = "ok"
    /\ log[3].data = <<":", "w", "2", "3", "=", "6", "0", "0", "0", "0", "0", "0", "0",
                       "0", "0", ",", "0", ".", "\n">>

\* ---- scaled registers ----

\* the getters of the scaled registers and the registers they read
GetRegister == [getamplitude |-> AMPLITUDE1 - 1, getoffset |-> OFFSET1 - 1,
                getdutycycle |-> DUTYCYCLE1 - 1, getphase |-> PHASE]

\* steps per unit of the four quantities: 1000 per volt of amplitude, 100 per
\* volt of offset, 10 per percent of duty cycle, 10 per degree of phase
StepsPerUnit == [setamplitude |-> 1000, setoffset |-> 100, setdutycycle |-> 10, setphase |-> 10,
                 getamplitude |-> 1000, getoffset |-> 100, getdutycycle |-> 10, getphase |-> 10]

\* the valid range of each setter, in quarters of a step
ValidRange == [setamplitude |-> <<0, 20 * 4000>>, setoffset |-> <<-10 * 400, 10 * 400>>,
               setdutycycle |-> <<0, 100 * 40>>, setphase |-> <<-360 * 40, 360 * 40>>]

\* a getter has returned the value of a register the caller has set before
ReadBack ==
    /\ pc = "done"
    /\ status = "ok"
    /\ api.name \in DOMAIN GetRegister
    /\ \E h \in caller : h.a = 0 /\ h.reg = GetRegister[api.name] + api.chan

\* the argument (in quarters of a step) the register just read was set with
SetArg == (CHOOSE h \in caller : h.a = 0 /\ h.reg = GetRegister[api.name] + api.chan).arg

\* the value returned is the argument within one step: with the value num/den
\* and the argument k/(4 S),  |num/den - k/(4 S)| <= 1/S
WithinOneStep ==
    LET r == retval.list[1]
        S == StepsPerUnit[api.name]
        d == 4 * S * r.num - SetArg * r.den
    IN  /\ retval.kind = "frac"
        /\ d <= 4 * r.den
        /\ - d <= 4 * r.den

\* a setter was called with a value one step outside its valid range
OneStepOutside ==
    /\ pc = "done"
    /\ api.name \in DOMAIN ValidRange
    /\ api.chan \in {0, 1, 2}
    /\ \/ api.iarg = ValidRange[api.name][1] - 4
       \/ api.iarg = ValidRange[api.name][2] + 4

Rejected == status = "err" /\ exc = "ValueError" /\ log = <<>>

\* C14 as stated: on an instrument that keeps what is written, every value of
\* the valid range of amplitude, offset, duty cycle and phase (-360..360
\* degrees) reads back as itself within one step, and a value one step
\* outside the range is rejected.  Violated: a negative phase reads back as
\* another value.
C14_RoundTripAllPhases ==
    /\ ReadBack => WithinOneStep
    /\ OneStepOutside => Rejected

\* C14: on an instrument that keeps what is written, every value of the valid
\* range of amplitude (0..20 V), offset (-10..10 V), duty cycle (0..100 %) and
\* every phase of 0..360 degrees reads back as itself within one step, and a
\* value one step outside the range a setter accepts is rejected by the setter.
C14_RoundTrip ==
    /\ ReadBack /\ ~ (api.name = "getphase" /\ SetArg < 0) => WithinOneStep
    /\ OneStepOutside => Rejected

\* an offset of -10 V, the lower end of the range, has been set and read back
C14_Witness ==
    /\ ReadBack
    /\ api.name = "getoffset"
    /\ SetArg = -10 * 400
    /\ retval.list = <<Frac(-1000, 100)>>

\* a negative phase has been set and read back
C14_NegativePhaseReadBack == ReadBack /\ api.name = "getphase" /\ SetArg < 0

\* the value a write command carries: the text between '=' and the final '.'
CmdValue(e) ==
    LET d == Stripped(e)
        eq == Min({i \in 1..Len(d) : d[i] = "="})
    IN  int(SubSeq(d, eq + 1, Len(d) - 1))

\* C15: every phase setphase accepts is written in tenths of a degree as a
\* value of [0, 3600), a negative phase p as the encoding of p + 360 degrees
\* (the nearest tenth: with p = k/40 degrees, |V - (k + 14400)/4| <= 1/2).
C15_PhaseNormalized ==
    \A j \in 1..Len(log) :
        api.name = "setphase" /\ IsWriteTo(log[j], PHASE) =>
            LET V == CmdValue(log[j])
                d == 4 * V - (api.iarg + 360 * 40)
            IN  /\ 0 <= V /\ V < 3600
                /\ api.iarg < 0 => d <= 2 /\ - d <= 2

\* the part of C15 that holds: the value written is in tenths of a degree for
\* a phase that is not negative
C15_TenthsOfDegree ==
    \A j \in 1..Len(log) :
        api.name = "setphase" /\ IsWriteTo(log[j], PHASE) /\ api.iarg >= 0 =>
            LET d == 4 * CmdValue(log[j]) - api.iarg
            IN  d <= 2 /\ - d <= 2

\* setphase(-90) has written its command
C15_Witness ==
    /\ api.name = "setphase"
    /\ api.iarg = -3600
    /\ \E j \in 1..Len(log) : IsWriteTo(log[j], PHASE)

\* ---- arbitrary waveforms ----

\* the arguments of the arb_setwave call are a valid slot and a valid payload
ValidArb ==
    /\ 1 <= api.iarg /\ api.iarg <= 60
    /\ Len(api.wave) = 2048
    /\ \A i \in 1..Len(api.wave) : 0 <= api.wave[i] /\ api.wave[i] <= 4095

\* the comma-separated fields of the value part of a command line
CmdFields(e) ==
    LET d == Stripped(e)
        eq == Min({i \in 1..Len(d) : d[i] = "="})
    IN  split(SubSeq(d, eq + 1, Len(d) - 1), ",")

\* C16: arb_setwave writes to the line only when the slot is in 1..60 and the
\* payload has exactly 2048 elements, all in [0, 4095]; what it writes is one
\* waveform write to that slot carrying the 2048 values comma-joined in order;
\* otherwise it fails with ValueError and nothing is written.
C16_ArbWriteValidated ==
    api.name = "arb_setwave" =>
        /\ log # <<>> => ValidArb
        /\ \A j \in 1..Len(log) :
               IsCmd(log[j]) =>
                   /\ j = 1
                   /\ SubSeq(log[j].data, 1, 5) = <<":", "a">> \o reg2txt(api.iarg) \o <<"=">>
        /\ pc = "done" /\ ~ ValidArb => status = "err" /\ exc = "ValueError" /\ log = <<>>
        /\ pc = "done" /\ log # <<>> =>
               LET f == CmdFields(log[1])
               IN  /\ Len(f) = 2048
                   /\ \A i \in 1..2048 : f[i] = str(api.wave[i])

\* arb_setwave(60, w) with a valid w has written its command and returned
C16_Witness ==
    /\ api.name = "arb_setwave"
    /\ pc = "done"
    /\ status = "ok"
    /\ api.iarg = 60
    /\ ValidArb
    /\ log # <<>>

\* arb_setwave with a payload of 2049 elements has been refused
C16_RejectedWitness ==
    /\ api.name = "arb_setwave"
    /\ pc = "done"
    /\ Len(api.wave) = 2049
    /\ status = "err"

\* arb_getwave has returned normally
ArbReturned == api.name = "arb_getwave" /\ pc = "done" /\ status = "ok"

\* C17: whenever arb_getwave returns normally its result is a sequence of
\* exactly 2048 samples; a reply carrying fewer or more values is not returned.
C17_ExactLength ==
    ArbReturned => retval.kind = "data" /\ ~ retval.scalar /\ Len(retval.list) = 2048

\* arb_getwave has returned the three samples of a reply cut short
C17_ShortReturned == ArbReturned /\ retval.list = <<7, 4095, 0>>

\* arb_getwave is over for a slot the caller has written a waveform to
WaveReadBack ==
    /\ api.name = "arb_getwave"
    /\ pc = "done"
    /\ \E h \in caller : h.a = 1 /\ h.reg = api.iarg

\* the waveform the caller has written to the slot just read
SetWave == (CHOOSE h \in caller : h.a = 1 /\ h.reg = api.iarg).wave

\* C18: on an instrument that keeps an acknowledged waveform write and answers
\* a waveform read with the values kept, with or without a trailing comma,
\* arb_setwave(s, w) followed by arb_getwave(s) returns a sequence identical
\* to w.
C18_WaveRoundTrip ==
    WaveReadBack =>
        /\ status = "ok"
        /\ retval.kind = "data"
        /\ ~ retval.scalar
        /\ retval.list = SetWave

\* slot 60 was written, and its read, answered with a trailing comma, is over
C18_Witness ==
    /\ WaveReadBack
    /\ api.iarg = 60
    /\ SetWave = MixWave
    /\ Len(log) = 2
    /\ LET d == log[2].data IN \E i \in (Len(d) - 2)..Len(d) : d[i] = ","

\* the comma-separated fields of the value part of a reply line: the text
\* after the first '=' up to the first '.' after it (or the end of the line)
ReplyFields(e) ==
    LET d == Stripped(e)
        eq == Min({i \in 1..Len(d) : d[i] = "="})
        dots == {i \in (eq + 1)..Len(d) : d[i] = "."}
        last == IF dots = {} THEN Len(d) ELSE Min(dots) - 1
    IN  split(SubSeq(d, eq + 1, last), ",")

\* C19: a read whose reply has an empty comma-separated field fails, except
\* that a waveform read tolerates an empty field that is the final field and
\* has exactly 2048 values before it; a register read accepts none.
C19_EmptyFieldRejected ==
    pc = "done" /\ status = "ok" =>
        \A k \in 1..Len(log) :
            IsReadReply(k) /\ (\E i \in 1..Len(log[k].data) : log[k].data[i] = "=") =>
                LET f == ReplyFields(log[k])
                IN  \A i \in 1..Len(f) :
                        f[i] = <<>> =>
                            /\ log[LastCmd(k)].data[2] = "b"
                            /\ i = Len(f)
                            /\ i = 2049

\* arb_getwave has returned 2049 samples from a reply with an empty field
\* between the last two
C19_ExtraReturned ==
    /\ ArbReturned
    /\ Len(retval.list) = 2049
    /\ LET d == log[2].data IN d[Len(d) - 4] = "," /\ d[Len(d) - 3] = ","

\* ---- timeouts ----

\* the line read at k for a read command is empty: no reply came in time
TimedOut(k) == IsReadReply(k) /\ log[k].data = <<>>

\* C20: when no reply to a read command comes within the timeout, the line
\* read is empty and the operation fails with FormatError and returns no
\* value, whatever the read (one register, several, a waveform) and whichever
\* of its lines is the one that does not come.
C20_TimeoutIsFormatError ==
    \A k \in 1..Len(log) :
        TimedOut(k) => FailedOnLast(k, "FormatError") /\ retval = NoRet

\* measure_getall has read two of its lines and got no third in time
C20_Witness ==
    /\ api.name = "measure_getall"
    /\ Len(log) = 4
    /\ ~ TimedOut(2)
    /\ ~ TimedOut(3)
    /\ TimedOut(4)
    /\ status = "err"

\* arb_getwave got no reply in time
C20_WaveWitness == api.name = "arb_getwave" /\ Len(log) = 2 /\ TimedOut(2) /\ status = "err"

\* getmode got no reply in time
C20_RegisterWitness == api.name = "getmode" /\ Len(log) = 2 /\ TimedOut(2) /\ status = "err"

\* ---- no retries ----

Count(s, ch) == Cardinality({i \in 1..Len(s) : s[i] = ch})

\* the part of a line right of its first '='
RightOfEq(s) == SubSeq(s, Min({i \in 1..Len(s) : s[i] = "="}) + 1, Len(s))

\* the line read at k for a read command is malformed (undecodable, not one
\* '=', for a register not one '.' after it) or carries another echo
BadReply(k) ==
    /\ IsReadReply(k)
    /\ \/ ~ Decodable(log[k].data)
       \/ Count(Stripped(log[k]), "=") # 1
       \/ LeftOfEq(Stripped(log[k])) # ExpectedEcho(k)
       \/ /\ log[LastCmd(k)].data[2] = "r"
          /\ Count(RightOfEq(Stripped(log[k])), ".") # 1

\* the line read at k for a write command is not the acknowledgement
MissingAck(k) ==
    /\ IsRead(log[k])
    /\ \E j \in 1..(k - 1) : IsCmd(log[j])
    /\ IsWriteCmd(log[LastCmd(k)])
    /\ ~ IsAck(log[k])

\* C21: within one call no command is written twice, and a malformed reply, a
\* reply with another echo or a missing acknowledgement is the last thing of
\* the call: the call has failed and nothing is written or read after it.
C21_NoRetry ==
    /\ \A j, k \in 1..Len(log) :
           j < k /\ IsCmd(log[j]) /\ IsCmd(log[k]) => log[j].data # log[k].data
    /\ \A k \in 1..Len(log) :
           BadReply(k) \/ MissingAck(k) => k = Len(log) /\ status = "err"

\* setmode has written its stop command and got no acknowledgement in time
C21_Witness ==
    /\ api.name = "setmode"
    /\ Len(log) = 2
    /\ log[1].data = StopLine
    /\ log[2].data = <<>>
    /\ MissingAck(2)
    /\ pc = "done"
    /\ status = "err"

\* measure_getall has failed on the malformed second line of its reply
C21_ReplyWitness ==
    /\ api.name = "measure_getall"
    /\ Len(log) = 3
    /\ BadReply(3)
    /\ ~ BadReply(2)
    /\ pc = "done"

\* ---- connections ----

\* C22: every object writes to and reads from the connection it opened at its
\* own construction, whatever objects are made after it, and no two objects
\* use one connection.
C22_OwnConnection ==
    /\ \A u \in clients.used : u.conn = clients.own[u.client]
    /\ \A u, v \in clients.used : u.client # v.client => u.conn # v.conn

\* the first object has written to the connection the second object opened
C22_SharedWitness ==
    /\ Len(clients.own) = 2
    /\ [client |-> 1, conn |-> 2, ev |-> "w"] \in clients.used
    /\ [client |-> 2, conn |-> 2, ev |-> "w"] \in clients.used

\* ---- system settings ----

\* the register each system setting is written at
SystemRegister ==
    [sound |-> 51, brightness |-> 52, language |-> 53, sync |-> 54, arbmaxnum |-> 55]

SystemGetters ==
    [system_getsound |-> "sound", system_getbrightness |-> "brightness",
     system_getlanguage |-> "language", system_getsync |-> "sync",
     system_getarbmaxnum |-> "arbmaxnum"]

SystemSetters ==
    [system_setsound |-> "sound", system_setbrightness |-> "brightness",
     system_setlanguage |-> "language", system_setsync |-> "sync",
     system_setarbmaxnum |-> "arbmaxnum"]

IsSystemRegister(reg) == 51 <= reg /\ reg <= 56

\* C23: a system getter called with bugfix=True reads register W + 1 and
\* with bugfix=False register W, where W is the register the setting is
\* written at; the setter writes register W (and no other system register).
C23_SystemRegisters ==
    /\ api.name \in DOMAIN SystemGetters =>
           LET W == SystemRegister[SystemGetters[api.name]]
           IN  /\ \A j \in 1..Len(log) :
                      IsCmd(log[j]) =>
                          /\ j = 1
                          /\ IsReadCmd(log[j])
                          /\ log[j].data[2] = "r"
                          /\ CmdReg(log[j]) = (IF api.bugfix THEN W + 1 ELSE W)
               /\ pc = "done" /\ status = "ok" => log # <<>> /\ IsCmd(log[1])
    /\ api.name \in DOMAIN SystemSetters =>
           LET W == SystemRegister[SystemSetters[api.name]]
           IN  /\ log # <<>> => IsWriteTo(log[1], W)
               /\ \A j \in 1..Len(log) :
                      IsCmd(log[j]) /\ IsSystemRegister(CmdReg(log[j])) =>
                          IsWriteTo(log[j], W)
               /\ pc = "done" /\ status = "ok" /\ ser_is_open => log # <<>>

\* system_getsync() has read register 55 and returned the five values
C23_Witness ==
    /\ api.name = "system_getsync"
    /\ api.bugfix
    /\ pc = "done"
    /\ status = "ok"
    /\ CmdReg(log[1]) = 55
    /\ retval.list = <<1, 0, 0, 1, 1>>

\* system_getsync(bugfix=False) has read register 54 and returned
C23_PlainWitness ==
    /\ api.name = "system_getsync"
    /\ ~ api.bugfix
    /\ pc = "done"
    /\ status = "ok"
    /\ CmdReg(log[1]) = 54

\* system_setlanguage("CH") has written register 53 and set the mode anew
C23_SetterWitness ==
    /\ api.name = "system_setlanguage"
    /\ api.sarg = <<"C", "H">>
    /\ pc = "done"
    /\ status = "ok"
    /\ Len(log) > 4
    /\ log[1].data = <<":", "w", "5", "3", "=", "1", ".", "\n">>

\* ---- measurements ----

\* two fractions are the same number
SameNumber(x, num, den) == x.num * den = num * x.den

\* what the caller has got before for the register: from the single getter
\* (a = 2) or as a value of measure_getall (a = 3)
Got(a, reg) == {h \in caller : h.a = a /\ h.reg = reg}

\* C24: measure_getall writes one read command, for 6 registers from register
\* 81, and returns six values; on an instrument whose registers do not change,
\* its i-th value is the number the i-th single getter returns, whichever of
\* the two is called first.
C24_GetallMatchesGetters ==
    /\ api.name = "measure_getall" =>
           /\ \A j \in 1..Len(log) :
                  IsCmd(log[j]) =>
                      j = 1 /\ log[j].data = <<":", "r", "8", "1", "=", "5", ".", "\n">>
           /\ pc = "done" /\ status = "ok" =>
                  /\ Len(log) = 7
                  /\ Len(retval.list) = 6
                  /\ \A i \in 1..6 : \A h \in Got(2, 80 + i) :
                         SameNumber(retval.list[i], h.arg, h.den)
    /\ api.name \in DOMAIN MeasureGetter /\ pc = "done" /\ status = "ok" =>
           \A h \in Got(3, MeasureGetter[api.name]) :
               SameNumber(retval.list[1], h.arg, h.den)

\* measure_getall has returned after measure_getfreq_p has
C24_Witness ==
    /\ api.name = "measure_getall"
    /\ pc = "done"
    /\ status = "ok"
    /\ Got(2, 82) # {}
    /\ retval.list[2] = Frac(1234567, 1000)

\* measure_getdutycycle has returned after measure_getall has
C24_ConverseWitness ==
    /\ api.name = "measure_getdutycycle"
    /\ pc = "done"
    /\ status = "ok"
    /\ Got(3, 86) # {}


\* ---- settings read back ----

\* what the caller has set last, with success, in the register
LastSet(reg) == CHOOSE h \in caller : h.a = 0 /\ h.reg = reg

WasSet(reg) == \E h \in caller : h.a = 0 /\ h.reg = reg

\* the last settings of channel 1 are setwaveform(1, "SINE"),
\* setfrequency(1, 1000, 0) and setamplitude(1, 5), made in any order
Channel1Set ==
    /\ WasSet(WAVEFORM1) /\ LastSet(WAVEFORM1).txt = <<"S", "I", "N", "E">>
    /\ WasSet(FREQUENCY1) /\ LastSet(FREQUENCY1).arg = 1000 /\ LastSet(FREQUENCY1).mult = 0
    /\ WasSet(AMPLITUDE1) /\ LastSet(AMPLITUDE1).arg = 5 * 4000

\* C25: on an instrument in a mode other than a sweep that keeps what is
\* written, setwaveform(1, "SINE"), setfrequency(1, 1000) in Hz and
\* setamplitude(1, 5) return normally, and after the three, in any order,
\* getwaveform(1) returns the id 0 of SINE, getfrequency(1) returns 1000 and
\* getamplitude(1) returns 5.
C25_SettingsReadBack ==
    /\ pc = "done" /\ api.chan = 1 =>
           /\ api.name = "setwaveform" /\ api.sarg = <<"S", "I", "N", "E">> => status = "ok"
           /\ api.name = "setfrequency" /\ api.iarg = 1000 /\ api.mult = 0 => status = "ok"
           /\ api.name = "setamplitude" /\ api.iarg = 5 * 4000 => status = "ok"
    /\ pc = "done" /\ api.chan = 1 /\ Channel1Set =>
           /\ api.name = "getwaveform" =>
                  /\ status = "ok"
                  /\ retval.id = 0
                  /\ retval.txt = <<"S", "I", "N", "E">>
           /\ api.name = "getfrequency" =>
                  status = "ok" /\ SameNumber(retval.list[1], 1000, 1)
           /\ api.name = "getamplitude" =>
                  status = "ok" /\ SameNumber(retval.list[1], 5, 1)

\* getfrequency(1) has returned after the three setters
C25_Witness ==
    /\ pc = "done"
    /\ api.name = "getfrequency"
    /\ api.chan = 1
    /\ Channel1Set
    /\ retval.list = <<Frac(100000, 100)>>

\* getwaveform(1) has returned after the three setters
C25_WaveformWitness ==
    /\ pc = "done"
    /\ api.name = "getwaveform"
    /\ api.chan = 1
    /\ Channel1Set
    /\ retval.kind = "pair"

\* getamplitude(1) has returned after the three setters
C25_AmplitudeWitness ==
    /\ pc = "done"
    /\ api.name = "getamplitude"
    /\ api.chan = 1
    /\ Channel1Set
    /\ retval.list = <<Frac(5000, 1000)>>

\* ---- register fields ----

\* the text s begins with the text p
StartsWith(s, p) == Len(s) >= Len(p) /\ \A i \in 1..Len(p) : s[i] = p[i]

\* the text is two decimal digits
TwoDigits(s) == Len(s) = 2 /\ IsDigit(s[1]) /\ IsDigit(s[2])

\* the reply line read at k was taken: the call went on after it
Taken(k) == IsReadReply(k) /\ ~ (k = Len(log) /\ status = "err")

\* the number of the line read at k among the lines of its read, from 0
LineOf(k) == k - LastCmd(k) - 1

\* C26: in every command written, and in the echo of every reply line a read
\* takes (each line of a read of several registers and the reads at the
\* register above included), the register or slot is two decimal digits, with
\* a leading zero below 10.
C26_TwoDigitRegister ==
    \A k \in 1..Len(log) :
        /\ IsCmd(log[k]) =>
               /\ log[k].data[1] = ":"
               /\ log[k].data[2] \in {"r", "w", "a", "b"}
               /\ TwoDigits(SubSeq(log[k].data, 3, 4))
               /\ log[k].data[5] = "="
        /\ Taken(k) =>
               LET echo == LeftOfEq(log[k].data)
               IN  /\ Len(echo) = 4
                   /\ TwoDigits(SubSeq(echo, 3, 4))
                   /\ 10 * DigitVal(echo[3]) + DigitVal(echo[4])
                          = CmdReg(log[LastCmd(k)]) + LineOf(k)

\* the serial number, register 1, has been read
C26_Witness ==
    /\ api.name = "getinfo_serialnumber"
    /\ pc = "done"
    /\ status = "ok"
    /\ Len(log) = 2
    /\ log[1].data = <<":", "r", "0", "1", "=", "0", ".", "\n">>
    /\ StartsWith(log[2].data, <<":", "r", "0", "1", "=">>)

\* a waveform has been written to slot 1
C26_SlotWitness ==
    /\ api.name = "arb_setwave"
    /\ pc = "done"
    /\ status = "ok"
    /\ Len(log) = 2
    /\ log[1].data[3] = "0"
    /\ log[1].data[4] = "1"

\* the sixth line of measure_getall, of register 86, has been taken
C26_LinesWitness ==
    /\ api.name = "measure_getall"
    /\ Len(log) = 7
    /\ Taken(7)
    /\ StartsWith(log[7].data, <<":", "r", "8", "6", "=">>)

\* system_getlanguage has read register 54, the one above its own
C26_AboveWitness ==
    /\ api.name = "system_getlanguage"
    /\ api.bugfix
    /\ pc = "done"
    /\ status = "ok"
    /\ Len(log) = 2
    /\ StartsWith(log[2].data, <<":", "r", "5", "4", "=">>)

\* ---- ranges ----

\* ValueError and the exception classes of the module derived from it
ValueErrorClass == {"ValueError", "UnknownChannelError", "UnexpectedValueError",
                    "UnexpectedReplyError", "FormatError"}

\* the register a range-checked operation writes, and the range it documents
RangeRegister == [burst_setnumberofbursts |-> 49, system_saveprofile |-> 70,
                  system_loadprofile |-> 71, system_clearprofile |-> 72]

RangeOf == [burst_setnumberofbursts |-> <<1, 1048575>>, system_saveprofile |-> <<0, 99>>,
            system_loadprofile |-> <<0, 99>>, system_clearprofile |-> <<0, 99>>]

InRange == RangeOf[api.name][1] <= api.iarg /\ api.iarg <= RangeOf[api.name][2]

\* C27: burst_setnumberofbursts accepts exactly 1..1,048,575 and
\* system_saveprofile / system_loadprofile / system_clearprofile accept exactly
\* the profiles 0..99, writing the value to register 49 / 70 / 71 / 72; a value
\* outside the range fails with an error of the ValueError class and sends no
\* command.  Violated: a profile outside 0..99 ends in NameError.
C27_RangeValidated ==
    api.name \in DOMAIN RangeRegister =>
        IF InRange
        THEN \A k \in 1..Len(log) :
                 IsCmd(log[k]) =>
                     /\ k = 1
                     /\ log[k].data = WriteCmd(RangeRegister[api.name], str(api.iarg), 0)
        ELSE /\ pc = "done"
             /\ status = "err"
             /\ exc \in ValueErrorClass
             /\ log = <<>>

\* system_loadprofile(100) has ended in NameError, nothing written
C27_NameErrorRaised ==
    /\ api.name = "system_loadprofile"
    /\ api.iarg = 100
    /\ pc = "done"
    /\ exc = "NameError"
    /\ log = <<>>

\* the part that holds: the numbers of bursts outside 1..1,048,575 end in
\* ValueError with nothing written, the values inside the four ranges are
\* written to the register of the operation, and no profile outside 0..99 is
\* written
C27_NothingOutsideWritten ==
    api.name \in DOMAIN RangeRegister =>
        IF InRange
        THEN \A k \in 1..Len(log) :
                 IsCmd(log[k]) =>
                     /\ k = 1
                     /\ log[k].data = WriteCmd(RangeRegister[api.name], str(api.iarg), 0)
        ELSE /\ pc = "done"
             /\ status = "err"
             /\ api.name = "burst_setnumberofbursts" => exc = "ValueError"
             /\ log = <<>>

\* ---- names ----

\* the setters that take a name
NameOps == {"setwaveform", "setmode", "measure_setcoupling", "measure_setmode",
            "sweep_setdirection", "sweep_setmode", "burst_setmode", "system_setlanguage"}

\* the names of a 0-based table, each with its index
Indexed(table) == {<<table[i], i - 1>> : i \in 1..Len(table)}

\* the table names of each setter, each with the register value it stands for
NameValues ==
    [setwaveform |-> Indexed(wavenames) \cup {<<awave[a], 100 + a>> : a \in 1..60},
     setmode |-> {<<modes[i].txt, modes[i].id>> : i \in {j \in 1..Len(modes) : modes[j].txt # <<>>}},
     measure_setcoupling |-> Indexed(measure_coupling),
     measure_setmode |-> Indexed(measure_mode),
     sweep_setdirection |-> Indexed(sweep_direction),
     sweep_setmode |-> Indexed(sweep_mode),
     burst_setmode |-> Indexed(burst_mode),
     system_setlanguage |-> Indexed(system_language)]

\* the documented shortcuts of each setter, each with the table name it stands for
Shortcuts ==
    [setwaveform |->
        {},
     setmode |->
        {},
     measure_setcoupling |->
        {<<<<"A", "C">>, <<"A", "C", "(", "E", "X", "T", ".", "I", "N", ")">>>>,
         <<<<"D", "C">>, <<"D", "C", "(", "E", "X", "T", ".", "I", "N", ")">>>>},
     measure_setmode |->
        {<<<<"F", "R", "E", "Q">>, <<"M", ".", "F", "R", "E", "Q">>>>,
         <<<<"P", "E", "R", "I", "O", "D">>, <<"M", ".", "P", "E", "R", "I", "O", "D">>>>},
     sweep_setdirection |->
        {<<<<"R", "I", "S", "E", "F", "A", "L", "L">>, <<"R", "I", "S", "E", "&", "F", "A", "L", "L">>>>,
         <<<<"B", "O", "T", "H">>, <<"R", "I", "S", "E", "&", "F", "A", "L", "L">>>>},
     sweep_setmode |->
        {<<<<"L", "I", "N">>, <<"L", "I", "N", "E", "A", "R">>>>,
         <<<<"L", "O", "G">>, <<"L", "O", "G", "A", "R", "I", "T", "H", "M">>>>},
     burst_setmode |->
        {<<<<"M", "A", "N", "U", "A", "L">>, <<"M", "A", "N", "U", "A", "L", " ", "T", "R", "I", "G", ".">>>>,
         <<<<"C", "H", "2">>, <<"C", "H", "2", " ", "T", "R", "I", "G", ".">>>>,
         <<<<"E", "X", "T", ".", "A", "C">>, <<"E", "X", "T", ".", "T", "R", "I", "G", "(", "A", "C", ")">>>>,
         <<<<"E", "X", "T", ".", "D", "C">>, <<"E", "X", "T", ".", "T", "R", "I", "G", "(", "D", "C", ")">>>>},
     system_setlanguage |->
        {<<<<"E", "N">>, <<"E", "N", "G", "L", "I", "S", "H">>>>,
         <<<<"C", "H">>, <<"C", "H", "I", "N", "E", "S", "E">>>>}]

\* the register the setter in progress writes the value to
NameRegister ==
    IF api.name = "setwaveform" THEN WAVEFORM1 + api.chan - 1
    ELSE IF api.name = "setmode" THEN MODE
    ELSE IF api.name = "system_setlanguage" THEN SYSTEM_LANGUAGE
    ELSE NameSetters[api.name].reg

\* the name passed is, whatever its case, a documented shortcut
IsShortcut == \E p \in Shortcuts[api.name] : p[1] = upper(api.sarg)

\* the table name the name passed stands for, whatever its case
TableName ==
    IF IsShortcut
    THEN (CHOOSE p \in Shortcuts[api.name] : p[1] = upper(api.sarg))[2]
    ELSE upper(api.sarg)

Resolves == \E p \in NameValues[api.name] : p[1] = TableName

\* a setter was called with a name (setwaveform for a channel there is)
NameCall ==
    /\ api.name \in NameOps
    /\ api.targ = "str"
    /\ api.name = "setwaveform" => api.chan \in {1, 2}

\* the call was refused before anything was written
Refused == pc = "done" /\ status = "err" /\ exc \in ValueErrorClass /\ log = <<>>

\* the call was not refused, and what it writes to its register is the value
\* of the table name
Resolved ==
    /\ ~ Refused
    /\ \A k \in 1..Len(log) :
           IsWriteTo(log[k], NameRegister) =>
               \E p \in NameValues[api.name] : p[1] = TableName /\ CmdValue(log[k]) = p[2]

\* C28: for every setter that takes a name (waveform, mode, measure coupling,
\* measure mode, sweep direction, sweep mode, burst mode, system language),
\* every upper/lower-case spelling of a table name or of a documented shortcut
\* resolves to the register value of the table name, and a name that does not
\* resolve fails with an error of the ValueError class and nothing is written.
\* Violated: system_setlanguage refuses "en", a spelling of the shortcut EN.
C28_NamesResolve ==
    NameCall => IF Resolves THEN Resolved ELSE Refused

\* system_setlanguage("en") was refused
C28_LowerCaseShortcutRefused ==
    /\ api.name = "system_setlanguage"
    /\ api.sarg = <<"e", "n">>
    /\ pc = "done"
    /\ exc = "ValueError"
    /\ log = <<>>

\* the part that holds: the same but for the shortcuts of system_setlanguage
\* in another spelling than upper case
C28_NamesResolveButLanguageShortcut ==
    NameCall /\ ~ (api.name = "system_setlanguage" /\ IsShortcut /\ api.sarg # upper(api.sarg)) =>
        IF Resolves THEN Resolved ELSE Refused

\* burst_setmode("ext.ac") has written 2, the value of EXT.TRIG(AC)
C28_ShortcutWitness ==
    /\ api.name = "burst_setmode"
    /\ api.sarg = <<"e", "x", "t", ".", "a", "c">>
    /\ pc = "done"
    /\ status = "ok"
    /\ Len(log) = 4
    /\ log[3].data = <<":", "w", "5", "0", "=", "2", ".", "\n">>

\* ---- mode decoding ----

\* the ids getmode may return, each with its one name
ModeNameOf == [id \in {0, 1, 2, 4, 5, 6, 7, 8, 9} |->
                 CASE id = 0 -> WAVE_CH1
                   [] id = 1 -> WAVE_CH2
                   [] id = 2 -> SYSTEM
                   [] id = 4 -> MEASURE
                   [] id = 5 -> COUNTER
                   [] id = 6 -> SWEEP_CH1
                   [] id = 7 -> SWEEP_CH2
                   [] id = 8 -> PULSE
                   [] id = 9 -> BURST]

\* getmode is over and the instrument had answered with one integer
ModeAnswered ==
    /\ api.name = "getmode"
    /\ pc = "done"
    /\ Len(vals) = 1
    /\ vals[1].scalar

\* the integer the instrument answered with
RawMode == vals[1].v[1]

\* C29: for every integer the instrument returns in the mode register
\* (negative ones and ones beyond the table included), getmode either returns
\* a pair (id, name) with id in {0,1,2,4,5,6,7,8,9} and name the one name of
\* that id, the raw codes of one mode giving one id (0..15 give 0, 16..31
\* give 1, 32..47 give 2), or raises UnexpectedValueError; it returns no other
\* id and raises no other error.
C29_ModeDecoded ==
    ModeAnswered =>
        \/ /\ status = "ok"
           /\ retval.kind = "mode"
           /\ retval.id \in DOMAIN ModeNameOf
           /\ retval.txt = ModeNameOf[retval.id]
           /\ 0 <= RawMode /\ RawMode < 48 => retval.id = RawMode \div 16
        \/ /\ status = "err"
           /\ exc = "UnexpectedValueError"

\* the raw value 8 has been returned as (0, "WAVE_CH1")
C29_Witness ==
    /\ ModeAnswered
    /\ RawMode = 8
    /\ status = "ok"
    /\ retval.id = 0

\* the raw value 48, an entry without a name, has raised UnexpectedValueError
C29_NoNameWitness ==
    /\ ModeAnswered
    /\ RawMode = 48
    /\ exc = "UnexpectedValueError"

\* the raw value -8 has been returned as (9, "BURST")
C29_NegativeWitness ==
    /\ ModeAnswered
    /\ RawMode = -8
    /\ status = "ok"
    /\ retval.id = 9

\* the raw value 112, beyond the table, has raised UnexpectedValueError
C29_BeyondWitness ==
    /\ ModeAnswered
    /\ RawMode = 112
    /\ exc = "UnexpectedValueError"

\* ---- registers of a channel ----

\* the register of channel 1 of each operation on a setting of a channel
BaseRegister ==
    [setwaveform |-> 21, getwaveform |-> 21,
     setfrequency |-> 23, getfrequency |-> 23, getfrequency_m |-> 23,
     setamplitude |-> 25, getamplitude |-> 25,
     setoffset |-> 27, getoffset |-> 27,
     setdutycycle |-> 29, getdutycycle |-> 29]

\* such an operation was called, with arguments of the types it takes
ChannelCall == api.name \in DOMAIN BaseRegister /\ api.targ # "other"

\* the command names the register of the channel the operation was called for
OwnRegister(e) == CmdReg(e) = BaseRegister[api.name] + api.chan - 1

\* a channel other than 1 and 2 was refused with nothing written
ChannelRefused == pc = "done" /\ status = "err" /\ exc = "ValueError" /\ log = <<>>

\* C30 as stated: every operation on waveform, frequency, amplitude, offset or
\* duty cycle of channel c in {1,2} reads or writes only register
\* base + (c-1); a channel outside {1,2} is rejected with ValueError before
\* anything is written.  Violated: setfrequency reads the mode register first.
C30_OnlyChannelRegister ==
    ChannelCall =>
        IF api.chan \in {1, 2}
        THEN \A k \in 1..Len(log) : IsCmd(log[k]) => OwnRegister(log[k])
        ELSE ChannelRefused

\* C30: every operation on waveform, frequency, amplitude, offset or duty
\* cycle of channel c in {1,2} reads or writes only register base + (c-1),
\* but for setfrequency, whose first command is the read of the mode register
\* 33; the register of the other channel is not read or written; a channel
\* outside {1,2} is rejected with ValueError before anything is written.
C30_ChannelRegister ==
    ChannelCall =>
        IF api.chan \in {1, 2}
        THEN \A k \in 1..Len(log) :
                 IsCmd(log[k]) =>
                     \/ OwnRegister(log[k])
                     \/ api.name = "setfrequency" /\ k = 1 /\ log[k].data = ModeQuery
        ELSE ChannelRefused

\* getoffset(2) has read register 28
C30_Witness ==
    /\ api.name = "getoffset"
    /\ api.chan = 2
    /\ pc = "done"
    /\ status = "ok"
    /\ Len(log) = 2
    /\ log[1].data = <<":", "r", "2", "8", "=", "0", ".", "\n">>

\* setfrequency(2, ...) has written register 24 after its mode query
C30_FrequencyWitness ==
    /\ api.name = "setfrequency"
    /\ api.chan = 2
    /\ pc = "done"
    /\ status = "ok"
    /\ Len(log) = 4
    /\ log[1].data = ModeQuery
    /\ IsWriteTo(log[3], 24)

\* setdutycycle(0, 50) was refused
C30_RefusedWitness ==
    /\ api.name = "setdutycycle"
    /\ api.chan = 0
    /\ api.iarg = 2000
    /\ ChannelRefused

\* ---- enumerated values ----

\* the getters that decode an enumerated value
EnumGetters == {"pulse_getpulsewidth", "pulse_getperiod", "burst_getmode", "system_getlanguage"}

\* the getter in progress takes a pair of a time and a unit
TakesUnit == api.name \in {"pulse_getpulsewidth", "pulse_getperiod"}

\* the values of the table of the getter in progress
EnumTable ==
    IF TakesUnit THEN {0, 1}
    ELSE IF api.name = "burst_getmode" THEN 0..3
    ELSE 0..1

\* such a getter is over, and what it read (the unit of a pair of time and
\* unit, the one integer of the other registers) is outside its table
OutOfTable ==
    /\ api.name \in EnumGetters
    /\ pc = "done"
    /\ Len(vals) = 1
    /\ IF TakesUnit
       THEN ~ vals[1].scalar /\ Len(vals[1].v) = 2 /\ vals[1].v[2] \notin EnumTable
       ELSE vals[1].scalar /\ vals[1].v[1] \notin EnumTable

\* C31: pulse_getpulsewidth and pulse_getperiod for a unit other than 0 or 1,
\* burst_getmode for a value outside 0..3 and system_getlanguage for a value
\* outside 0..1 raise UnexpectedValueError: none of them returns a value or
\* fails with another error.  Violated: the four end in NameError or
\* IndexError, or return the entry a negative index finds.
C31_OutOfTableRaises ==
    OutOfTable => status = "err" /\ exc = "UnexpectedValueError"

\* burst_getmode has read 4 and ended in NameError
C31_NameErrorRaised ==
    /\ OutOfTable
    /\ api.name = "burst_getmode"
    /\ vals[1].v[1] = 4
    /\ exc = "NameError"

\* burst_getmode has read -1 and returned the last entry of the table
C31_NegativeReturned ==
    /\ OutOfTable
    /\ api.name = "burst_getmode"
    /\ vals[1].v[1] = -1
    /\ status = "ok"
    /\ retval.txt = burst_mode[4]

\* pulse_getperiod has read the unit 2 and ended in NameError
C31_UnitNameError ==
    /\ OutOfTable
    /\ api.name = "pulse_getperiod"
    /\ vals[1].v[2] = 2
    /\ exc = "NameError"

\* system_getlanguage has read 2 and ended in IndexError
C31_IndexErrorRaised ==
    /\ OutOfTable
    /\ api.name = "system_getlanguage"
    /\ vals[1].v[1] = 2
    /\ exc = "IndexError"

\* what holds: out of its table, none of the four getters raises
\* UnexpectedValueError
C31_NeverUnexpectedValueError ==
    OutOfTable => exc # "UnexpectedValueError"

\* ---- waveform ids ----

\* the ids of the predefined waveforms and of the arbitrary slots
WaveformIds == (0..16) \cup (101..160)

\* the table name of a waveform id
WaveformName(id) == IF id <= 16 THEN wavenames[id + 1] ELSE awave[id - 100]

\* getwaveform is over and has read one integer from the device
WaveformRead ==
    /\ api.name = "getwaveform"
    /\ pc = "done"
    /\ Len(vals) = 1
    /\ vals[1].scalar

\* C32: getwaveform returns a pair (id, name) only when the id read is in
\* 0..16 or 101..160, and the name is the table name of that id; for every
\* other integer read (negative, 17..100, above 160) it raises
\* UnexpectedValueError.  Violated: for -17..-1 and for 41..100 the negative
\* index finds an entry of a table, and the call returns.
C32_WaveformInTable ==
    WaveformRead =>
        IF vals[1].v[1] \in WaveformIds
        THEN /\ status = "ok"
             /\ retval.kind = "pair"
             /\ retval.id = vals[1].v[1]
             /\ retval.txt = WaveformName(vals[1].v[1])
        ELSE status = "err" /\ exc = "UnexpectedValueError"

\* getwaveform has read -1 and returned (-1, "LORENZ")
C32_NegativeReturned ==
    /\ WaveformRead
    /\ vals[1].v[1] = -1
    /\ status = "ok"
    /\ retval.id = -1
    /\ retval.txt = wavenames[17]

\* getwaveform has read 100 and returned (100, "ARBITRARY60")
C32_BetweenReturned ==
    /\ WaveformRead
    /\ vals[1].v[1] = 100
    /\ status = "ok"
    /\ retval.txt = awave[60]

\* what holds: an id of the tables is returned with its table name, and an id
\* no index of either table reaches (17, 161, -18) raises UnexpectedValueError
C32_WaveformInTableOrOutOfReach ==
    WaveformRead =>
        IF vals[1].v[1] \in WaveformIds
        THEN /\ status = "ok"
             /\ retval.id = vals[1].v[1]
             /\ retval.txt = WaveformName(vals[1].v[1])
        ELSE vals[1].v[1] \in {-18, 17, 161} =>
                status = "err" /\ exc = "UnexpectedValueError"

\* getwaveform has read 160 and returned the name of the last slot
C32_LastSlotReturned ==
    /\ WaveformRead
    /\ vals[1].v[1] = 160
    /\ status = "ok"
    /\ retval.txt = awave[60]

\* ---- waveform written ----

\* setwaveform was called for a channel there is, with an integer or a name
WaveformCall ==
    /\ api.name = "setwaveform"
    /\ api.chan \in {1, 2}
    /\ api.targ \in {"int", "str"}

\* the waveform given is an id or a name of the tables
WaveformKnown ==
    IF api.targ = "int" THEN api.iarg \in WaveformIds
    ELSE \E id \in WaveformIds : WaveformName(id) = upper(api.sarg)

\* a register write to the waveform register of a channel
IsWaveformWrite(e) == IsWriteTo(e, WAVEFORM1) \/ IsWriteTo(e, WAVEFORM1 + 1)

\* C33: the value setwaveform writes to a waveform register is always in
\* 0..16 or 101..160: an integer outside those ranges (negative integers and
\* 17..100 included) and an unknown name are rejected with ValueError and
\* nothing is written.  Violated: setwaveform(1, -1) writes -1.
C33_WaveformWritten ==
    WaveformCall =>
        /\ \A k \in 1..Len(log) :
               IsWaveformWrite(log[k]) => CmdValue(log[k]) \in WaveformIds
        /\ (pc = "done" /\ ~ WaveformKnown) =>
               status = "err" /\ exc = "ValueError" /\ log = <<>>

\* setwaveform(1, -1) has written -1 to register 21
C33_NegativeWritten ==
    /\ WaveformCall
    /\ api.targ = "int" /\ api.iarg = -1
    /\ Len(log) >= 1
    /\ IsWriteTo(log[1], WAVEFORM1)
    /\ CmdValue(log[1]) = -1

\* what holds: with an id from -17 on, the value written is the integer given
\* or the id of the name given, and an integer that indexes neither table (17,
\* 161) or an unknown name is refused with ValueError and nothing written
C33_WaveformWrittenFromMinus17 ==
    WaveformCall =>
        /\ \A k \in 1..Len(log) :
               IsWaveformWrite(log[k]) =>
                   CmdValue(log[k]) \in WaveformIds \cup (-17..-1)
        /\ (pc = "done" /\ ~ WaveformKnown /\ ~ (api.targ = "int" /\ api.iarg \in -17..-1)) =>
               status = "err" /\ exc = "ValueError" /\ log = <<>>

\* setwaveform(1, 17) has been refused
C33_RefusedWitness ==
    /\ WaveformCall
    /\ api.targ = "int" /\ api.iarg = 17
    /\ pc = "done" /\ exc = "ValueError" /\ log = <<>>

\* ---- multiplier of a frequency ----

\* the multipliers of a frequency
Multipliers == 0..4

\* a register write to the frequency register of a channel
IsFrequencyWrite(e) == IsWriteTo(e, FREQUENCY1) \/ IsWriteTo(e, FREQUENCY1 + 1)

\* the multiplier tag a frequency write carries: the text between ',' and
\* the final '.'
CmdTag(e) ==
    LET d == Stripped(e)
        c == Min({i \in 1..Len(d) : d[i] = ","})
    IN  int(SubSeq(d, c + 1, Len(d) - 1))

\* setfrequency, past its checks of channel, frequency and mode, is over
\* with a multiplier that is none of 0..4
OtherMultiplier ==
    /\ api.name = "setfrequency"
    /\ api.chan \in {1, 2}
    /\ api.iarg >= 0
    /\ mode # NoMode
    /\ ~ SweepingSame
    /\ pc = "done"
    /\ api.mult \notin Multipliers

\* C34: setfrequency writes a frequency command only with a multiplier tag of
\* 0..4: an integer multiplier outside that set (negative or above 4) is
\* rejected with a ValueError-class error and no frequency write is sent.
\* Violated: the multiplier 5 ends in TypeError, and -1 is written.
C34_MultiplierValidated ==
    api.name = "setfrequency" =>
        /\ \A k \in 1..Len(log) :
               IsFrequencyWrite(log[k]) => CmdTag(log[k]) \in Multipliers
        /\ OtherMultiplier =>
               /\ status = "err"
               /\ exc \in ValueErrorClass
               /\ \A k \in 1..Len(log) : ~ IsFrequencyWrite(log[k])

\* setfrequency(1, 1, 5) has ended in TypeError after its mode query
C34_TypeErrorRaised ==
    /\ OtherMultiplier
    /\ api.mult = 5
    /\ exc = "TypeError"
    /\ Len(log) = 2

\* setfrequency(1, 1, -1) has written the frequency with the tag -1
C34_NegativeWritten ==
    /\ OtherMultiplier
    /\ api.chan = 1
    /\ api.mult = -1
    /\ Len(log) >= 3
    /\ IsWriteTo(log[3], FREQUENCY1)
    /\ CmdTag(log[3]) = -1

\* what holds: a multiplier above 4 is refused, though with TypeError, and no
\* frequency write is sent; the tag written is the multiplier given, from -5 on
C34_MultiplierAboveFourRefused ==
    api.name = "setfrequency" =>
        /\ \A k \in 1..Len(log) :
               IsFrequencyWrite(log[k]) =>
                   CmdTag(log[k]) = api.mult /\ api.mult \in -5..4
        /\ (OtherMultiplier /\ api.mult > 4) =>
               /\ status = "err"
               /\ exc = "TypeError"
               /\ \A k \in 1..Len(log) : ~ IsFrequencyWrite(log[k])

\* ---- burst mode ----

\* burst_setmode was called with a mode of 0..3 or with a name that resolves
BurstModeValid ==
    IF api.targ = "int" THEN api.iarg \in 0..3 ELSE Resolves

\* C35: burst_setmode with a valid mode writes the STOP action and receives
\* its acknowledgement before it writes the burst-mode register, whatever the
\* mode of the instrument; with an invalid mode it fails before any write; if
\* the STOP write is not acknowledged the burst-mode register is not written.
\* On an open port a call that returns has made both writes.
C35_BurstModeAfterStop ==
    api.name = "burst_setmode" =>
        /\ \A k \in 1..Len(log) : IsCmd(log[k]) =>
             \/ k = 1 /\ log[k].data = StopLine /\ BurstModeValid
             \/ /\ k = 3
                /\ IsWriteTo(log[k], BURST_MODE)
                /\ BurstModeValid
                /\ log[1].data = StopLine
                /\ IsAck(log[2])
        /\ ~ BurstModeValid =>
             /\ log = <<>>
             /\ pc = "done" => status = "err" /\ exc = "ValueError"
        /\ (BurstModeValid /\ pc = "done" /\ status = "ok" /\ ser_is_open) =>
             /\ Len(log) = 4
             /\ IsWriteTo(log[3], BURST_MODE)
             /\ IsAck(log[4])

\* burst_setmode(2) has stopped the burst, then written the mode 2, both
\* acknowledged
C35_Witness ==
    /\ api.name = "burst_setmode"
    /\ api.targ = "int" /\ api.iarg = 2
    /\ pc = "done" /\ status = "ok"
    /\ Len(log) = 4
    /\ log[1].data = StopLine
    /\ IsAck(log[2])
    /\ log[3].data = <<":", "w", "5", "0", "=", "2", ".", "\n">>

\* the STOP write of burst_setmode('manual') was not acknowledged, and the
\* call has ended there
C35_StopUnacknowledged ==
    /\ api.name = "burst_setmode"
    /\ BurstModeValid
    /\ pc = "done" /\ status = "err"
    /\ Len(log) = 2
    /\ log[1].data = StopLine
    /\ ~ IsAck(log[2])

\* burst_setmode(4) has been refused
C35_InvalidRefused ==
    /\ api.name = "burst_setmode"
    /\ api.targ = "int" /\ api.iarg = 4
    /\ pc = "done" /\ exc = "ValueError" /\ log = <<>>

\* ---- language ----

\* system_setlanguage was called with 0 or 1 or with a name that resolves
LanguageValid ==
    IF api.targ = "int" THEN api.iarg \in {0, 1} ELSE Resolves

\* the mode id getmode makes of the reply line read at k
ModeIdRead(k) == PyIndex(modes, int(ReplyFields(log[k])[1]) \div 8).id

\* C36: system_setlanguage with a valid language writes the language register,
\* then queries the mode, then enters that mode again through setmode (STOP
\* action, mode write, and the counter reset when the mode is BURST), in that
\* order, each write acknowledged before the next command; the mode id written
\* is the mode id read; with an invalid language nothing is written.  On an
\* open port a call that returns has written all of them.
C36_LanguageThenSameMode ==
    api.name = "system_setlanguage" =>
        /\ \A k \in 1..Len(log) : IsCmd(log[k]) =>
             \/ /\ k = 1
                /\ IsWriteTo(log[k], SYSTEM_LANGUAGE)
                /\ LanguageValid
                /\ CmdValue(log[k]) \in {0, 1}
             \/ /\ k = 3
                /\ log[k].data = ModeQuery
                /\ IsWriteTo(log[1], SYSTEM_LANGUAGE)
                /\ IsAck(log[2])
             \/ /\ k = 5
                /\ log[k].data = StopLine
                /\ log[3].data = ModeQuery
                /\ IsReadReply(4)
             \/ /\ k = 7
                /\ log[k].data = ModeLine(ModeIdRead(4))
                /\ ModeIdRead(4) \in DOMAIN ModeNameOf
                /\ log[5].data = StopLine
                /\ IsAck(log[6])
             \/ /\ k = 9
                /\ log[k].data = ResetLine
                /\ ModeIdRead(4) = 9
                /\ IsWriteTo(log[7], MODE)
                /\ IsAck(log[8])
        /\ ~ LanguageValid =>
             /\ log = <<>>
             /\ pc = "done" => status = "err"
        /\ (pc = "done" /\ status = "ok" /\ ser_is_open) =>
             /\ Len(log) = (IF ModeIdRead(4) = 9 THEN 10 ELSE 8)
             /\ IsWriteTo(log[7], MODE)
             /\ IsAck(log[Len(log)])

\* system_setlanguage(1) on an instrument in the mode MEASURE has written the
\* language, read the mode 4, stopped the actions and written the mode 4
C36_Witness ==
    /\ api.name = "system_setlanguage"
    /\ api.targ = "int" /\ api.iarg = 1
    /\ pc = "done" /\ status = "ok"
    /\ Len(log) = 8
    /\ log[1].data = <<":", "w", "5", "3", "=", "1", ".", "\n">>
    /\ log[3].data = ModeQuery
    /\ ModeIdRead(4) = 4
    /\ log[5].data = StopLine
    /\ log[7].data = ModeLine(4)

\* system_setlanguage('English') on an instrument in the mode BURST has reset
\* the counter after the mode write
C36_BurstWitness ==
    /\ api.name = "system_setlanguage"
    /\ api.targ = "str"
    /\ pc = "done" /\ status = "ok"
    /\ Len(log) = 10
    /\ ModeIdRead(4) = 9
    /\ log[7].data = ModeLine(9)
    /\ log[9].data = ResetLine

\* system_setlanguage(2) has failed with nothing written
C36_InvalidWitness ==
    /\ api.name = "system_setlanguage"
    /\ api.targ = "int" /\ api.iarg = 2
    /\ pc = "done" /\ status = "err" /\ log = <<>>

\* ---- Bode sweep ----

\* the number of frequencies probed
NumFreqs == Len(bode.freqs)

\* the call just made is setfrequency for the frequency f (Hz), and its write
\* to the frequency register of the channel was acknowledged
FrequencyAcknowledged(f) ==
    /\ api.name = "setfrequency"
    /\ api.iarg = f
    /\ pc = "done"
    /\ status = "ok"
    /\ Len(log) = 4
    /\ log[3].data = WriteCmd(FREQUENCY1 + AWG_CHANNEL - 1, str(100 * f) \o <<",", "0">>, 0)
    /\ IsAck(log[4])

\* the sweep has run from one sample to the next without an exception
Sweeping == bode.at \in {"slept", "set", "measured", "output", "end"}

\* C37: in the Bode sweep, for each of the N frequencies in order the
\* frequency write of the generator is acknowledged before the amplitude is
\* measured, exactly one amplitude sample (possibly absent) is recorded per
\* frequency, and with an output file the CSV written has one data row for
\* every one of the N frequencies.  Violated: the rows of the first and of the
\* last frequency are not written.
C37_SweepRecorded ==
    /\ (bode.at = "set" /\ pc = "done" /\ status = "ok") =>
           FrequencyAcknowledged(bode.freqs[Len(bode.volts) + 1])
    /\ (bode.at = "measured" /\ pc = "done") =>
           FrequencyAcknowledged(bode.freqs[Len(bode.volts)])
    /\ Sweeping => Len(bode.volts) <= NumFreqs
    /\ bode.at \in {"output", "end"} => Len(bode.volts) = NumFreqs
    /\ (bode.at = "end" /\ bode.file) =>
           /\ Len(bode.rows) = NumFreqs
           /\ \A i \in 1..NumFreqs : bode.rows[i].freq = bode.freqs[i]

\* a sweep of three frequencies has ended with a file of one row, that of the
\* second frequency
C37_RowsMissing ==
    /\ bode.at = "end"
    /\ bode.file
    /\ NumFreqs = 3
    /\ Len(bode.volts) = 3
    /\ Len(bode.rows) = 1
    /\ bode.rows[1].freq = bode.freqs[2]

\* what holds: the order of write, acknowledgement and measurement, one sample
\* per frequency, and a file with the rows of all frequencies but the first
\* and the last, in order
C37_SweepRecordedButFirstAndLast ==
    /\ (bode.at = "set" /\ pc = "done" /\ status = "ok") =>
           FrequencyAcknowledged(bode.freqs[Len(bode.volts) + 1])
    /\ (bode.at = "measured" /\ pc = "done") =>
           FrequencyAcknowledged(bode.freqs[Len(bode.volts)])
    /\ Sweeping => Len(bode.volts) <= NumFreqs
    /\ bode.at \in {"output", "end"} => Len(bode.volts) = NumFreqs
    /\ (bode.at = "end" /\ bode.file) =>
           /\ Len(bode.rows) = (IF NumFreqs < 2 THEN 0 ELSE NumFreqs - 2)
           /\ \A i \in 1..Len(bode.rows) : bode.rows[i].freq = bode.freqs[i + 1]
           /\ bode.closed

\* a sample is appended only in a step from a state in which the frequency
\* write of that frequency is acknowledged, and one sample at a time
C37_MeasuredAfterAcknowledged ==
    [][bode'.volts # bode.volts =>
          /\ Len(bode'.volts) = Len(bode.volts) + 1
          /\ FrequencyAcknowledged(bode.freqs[Len(bode'.volts)])]_vars

\* the fourth frequency of a sweep has been measured after its write was
\* acknowledged
C37_MeasuredWitness ==
    /\ bode.at = "measured"
    /\ pc = "done"
    /\ Len(bode.volts) = 4
    /\ FrequencyAcknowledged(4000)

\* with the phase asked for and no phase measured for the second frequency
\* the file ends after the heading
C37_PhaseNoneWitness ==
    /\ bode.at = "failed"
    /\ bode.PHASE /\ bode.file
    /\ Len(bode.volts) = NumFreqs
    /\ NumFreqs >= 3
    /\ bode.rows = <<>>
====
